---- MODULE Spec2Model ----
(***************************************************************************)
(* Model of the retry core of the subscriptions service:                   *)
(*   - retry.retrier.Do            (app/internal/retry/retry.go)           *)
(*   - repository error sentinels  (app/internal/repository/errors.go)     *)
(*   - application.isRetryableFunc (app/internal/application/app.go)       *)
(*                                                                         *)
(* An error value is modelled by its unwrap chain: a sequence of nodes,    *)
(* outermost first.  The nil error is the empty chain.  A node carries the *)
(* dynamic type of the error and an identity: the name of the package      *)
(* level variable for a sentinel, the message prefix for a value built by  *)
(* fmt.Errorf.                                                             *)
(***************************************************************************)
EXTENDS Integers, Sequences, FiniteSets, TLC

\* ------------------------------------------------------------------ bounds
\* largest maxAttempts a retrier is constructed with
MaxAttemptsBound == 3
\* cap on the invocations of one Do call (only reached when maxAttempts = 0)
MaxInvocations == 4

\* the Do calls of the model; a specification activates some of them
CallIds == {1, 2}

\* ------------------------------------------------------------ error values
Nil == <<>>

Node(t, i) == [typ |-> t, id |-> i]

\* errors.New(text): one node of type *errors.errorString
ErrorsNew(text) == <<Node("errorString", text)>>

\* newProxyErr(background, msg): a proxyError that unwraps to background
newProxyErr(background, msg) == <<Node("proxyError", msg)>> \o background

\* fmt.Errorf(msg + ": %w", e): a *fmt.wrapError that unwraps to e; with a nil
\* operand the verb wraps nothing and the result is a plain errorString
Errorf(msg, e) ==
    IF e = Nil THEN ErrorsNew(msg) ELSE <<Node("wrapError", msg)>> \o e

\* errors.Unwrap
Unwrap(e) == IF e = Nil THEN Nil ELSE Tail(e)

\* errors.Is(err, target): some error of err's chain is the target itself
Is(e, target) ==
    IF target = Nil THEN e = Nil
    ELSE \E i \in 1..Len(e) : e[i] = target[1]

\* sentinels of the storage driver and of package context
pgxErrNoRows == ErrorsNew("pgx.ErrNoRows")
pgxErrTxClosed == ErrorsNew("pgx.ErrTxClosed")
Canceled == ErrorsNew("context.Canceled")
DeadlineExceeded == ErrorsNew("context.DeadlineExceeded")

\* repository sentinels
ErrInvalidID == ErrorsNew("invalid id")
ErrNilValue == ErrorsNew("nil value")
ErrNotFound == newProxyErr(pgxErrNoRows, "not found")
ErrDuplicate == ErrorsNew("duplicate")
ErrForeignKeyViolation == ErrorsNew("foreign key violation")
ErrNoRowsAffected == ErrorsNew("no rows affected")
ErrTxAborted == pgxErrTxClosed

\* errors outside the repository's vocabulary, as wrapDBError hands them on
RawUnknown == ErrorsNew("connection refused")
PgUnknown == Errorf("postgres error [40001]", <<Node("PgError", "40001")>>)

\* what one invocation of the operation may return
OpErrs ==
    { Nil, ErrInvalidID, ErrNilValue, ErrNotFound, ErrDuplicate,
      ErrForeignKeyViolation, ErrTxAborted, RawUnknown, PgUnknown }

\* the two messages of Do's wrappers
UnretryableMsg == "unretryable error"
ExhaustedMsg == "all attempts failed"

\* ------------------------------------------------------------- wrapDBError
\* longest chain of a raw error handed to wrapDBError
MaxChain == 2

\* the text by which Postgres reports SQLSTATE 25P02
AbortedMsg == "current transaction is aborted"

\* a *pgconn.PgError with the given SQLSTATE code
PgError(code) == Node("PgError", code)

\* the errors a raw error of the storage driver is made of: the two
\* sentinels, Postgres errors (unique violation, foreign key violation,
\* in-failed-transaction, serialization failure), wrappers and a plain error
RawNodes ==
    { pgxErrNoRows[1], pgxErrTxClosed[1],
      PgError("23505"), PgError("23503"), PgError("25P02"), PgError("40001"),
      Node("wrapError", AbortedMsg), Node("wrapError", "query failed"),
      Node("errorString", "connection refused") }

\* the raw errors: nil and the chains of at most MaxChain errors, in the order
\* in which errors.Is and errors.As visit them
RawErrs == UNION { [1..n -> RawNodes] : n \in 0..MaxChain }

\* strings.Contains(err.Error(), "current transaction is aborted"): the text
\* of an error includes the text of the errors it wraps
MessageAborted(e) ==
    \E i \in 1..Len(e) :
        \/ e[i].id = AbortedMsg
        \/ e[i] = PgError("25P02")

\* errors.As(err, &pgErr): is there a *pgconn.PgError in the chain
AsPgError(e) == \E i \in 1..Len(e) : e[i].typ = "PgError"

\* pgErr.Code of the first *pgconn.PgError of the chain
PgCode(e) ==
    LET first == CHOOSE i \in 1..Len(e) :
                    /\ e[i].typ = "PgError"
                    /\ \A j \in 1..(i - 1) : e[j].typ # "PgError"
    IN  e[first].id

PgMsg(code) == "postgres error [" \o code \o "]"

\* mutant: the driver's no-rows sentinel is passed on as it is
wrapDBErrorNoRowsRaw(e) ==
    IF e = Nil THEN Nil
    ELSE IF Is(e, pgxErrNoRows) THEN e
    ELSE IF Is(e, pgxErrTxClosed) THEN ErrTxAborted
    ELSE IF MessageAborted(e) THEN ErrTxAborted
    ELSE IF AsPgError(e)
    THEN CASE PgCode(e) = "23505" -> ErrDuplicate
           [] PgCode(e) = "23503" -> ErrForeignKeyViolation
           [] OTHER -> Errorf(PgMsg(PgCode(e)), e)
    ELSE e

\* mutant: the Postgres code is looked at before the aborted-transaction text
wrapDBErrorCodeFirst(e) ==
    IF e = Nil THEN Nil
    ELSE IF Is(e, pgxErrNoRows) THEN ErrNotFound
    ELSE IF Is(e, pgxErrTxClosed) THEN ErrTxAborted
    ELSE IF AsPgError(e) /\ PgCode(e) = "23505" THEN ErrDuplicate
    ELSE IF AsPgError(e) /\ PgCode(e) = "23503" THEN ErrForeignKeyViolation
    ELSE IF MessageAborted(e) THEN ErrTxAborted
    ELSE IF AsPgError(e) THEN Errorf(PgMsg(PgCode(e)), e)
    ELSE e

\* mutant: the unrecognized Postgres error is formatted with %v, not %w
wrapDBErrorDropsCause(e) ==
    IF e = Nil THEN Nil
    ELSE IF Is(e, pgxErrNoRows) THEN ErrNotFound
    ELSE IF Is(e, pgxErrTxClosed) THEN ErrTxAborted
    ELSE IF MessageAborted(e) THEN ErrTxAborted
    ELSE IF AsPgError(e)
    THEN CASE PgCode(e) = "23505" -> ErrDuplicate
           [] PgCode(e) = "23503" -> ErrForeignKeyViolation
           [] OTHER -> ErrorsNew(PgMsg(PgCode(e)))
    ELSE e

\* repository.wrapDBError
wrapDBError(e) ==
    IF e = Nil THEN Nil
    ELSE IF Is(e, pgxErrNoRows) THEN ErrNotFound
    ELSE IF Is(e, pgxErrTxClosed) THEN ErrTxAborted
    ELSE IF MessageAborted(e) THEN ErrTxAborted
    ELSE IF AsPgError(e)
    THEN CASE PgCode(e) = "23505" -> ErrDuplicate
           [] PgCode(e) = "23503" -> ErrForeignKeyViolation
           [] OTHER -> Errorf(PgMsg(PgCode(e)), e)
    ELSE e

\* ------------------------------------------------- retryability predicates
\* mutant: the not-found sentinel is left off the list of final errors
unretryableErrorsNoNotFound ==
    << ErrDuplicate, ErrInvalidID, ErrForeignKeyViolation >>

\* mutant: the transaction sentinel is put on the list of final errors
unretryableErrorsWithTx ==
    << ErrDuplicate, ErrNotFound, ErrInvalidID, ErrForeignKeyViolation,
       ErrTxAborted >>

unretryableErrors ==
    << ErrDuplicate, ErrNotFound, ErrInvalidID, ErrForeignKeyViolation,
       ErrNotFound >>

\* application.isRetryableFunc
isRetryableFunc(e) ==
    ~ \E k \in 1..Len(unretryableErrors) : Is(e, unretryableErrors[k])

\* retry.defaultIsRetryableFunc
defaultIsRetryableFunc(e) == e # Nil

\* the predicates a retrier is constructed with: the default, the
\* application's, a caller's that rejects everything, and none at all
\* (WithIsRetryableFunc(nil))
Predicates == {"default", "app", "never", "nil"}

\* ------------------------------------------------------------ Summary data
\* a request not made and a result not returned
NoQuery == [from |-> 0, to |-> 0, user |-> "none", service |-> "none"]
NoResult == [total |-> 0, err |-> Nil]

\* ---------------------------------------------------------- repository data
\* the zero models.Subscription; instants are hours since 2025-01-01
NoSub ==
    [id |-> 0, service |-> "", price |-> 0, user |-> "", start |-> 0,
     hasEnd |-> FALSE, end |-> 0]
NoGot == [sub |-> NoSub, err |-> Nil]

\* -------------------------------------------------------- construction data
\* In the settings and in the retrier a duration is counted in seconds, a
\* factor in halves and a jitter in tenths.

\* a Backoff value: its dynamic type and its fields
BackoffValue(k, i, b, s, m, f, j) ==
    [kind |-> k, interval |-> i, base |-> b, step |-> s, max |-> m,
     factor |-> f, jitter |-> j]

\* retry.defaultAttempts
defaultAttempts == 3

\* retry.defaultBackoff: LinearBackoff{Base: 1s, Step: 1s, Max: 10s,
\* Jitter: 0.1}
defaultBackoff == BackoffValue("LinearBackoff", 0, 1, 1, 10, 0, 1)

\* no settings supplied, and the zero config.Retry
NoFile ==
    [backoff |-> "unset", attemptsSet |-> FALSE, attempts |-> 0, base |-> 0,
     factor |-> 0, max |-> 0, jitterSet |-> FALSE, jitter |-> 0]
NoRetryCfg ==
    [backoff |-> "", base |-> 0, factor |-> 0, max |-> 0, maxAttempts |-> 0,
     jitter |-> 0]

\* ---------------------------------------------------------------- List data
NoArgs == [limit |-> 0, offset |-> 0]
NoList == [subs |-> << >>, err |-> Nil]

\* ------------------------------------------------------------- backoff data
\* the zero value of the fields of a Backoff
NoCfg ==
    [interval |-> 0, base |-> 0, step |-> 0, max |-> 0, factor |-> 0,
     jitter |-> 0]

VARIABLES
    maxAttempts,    \* retrier.maxAttempts
    isRetryable,    \* retrier.isRetryable, by name
    pc,             \* position of each Do call
    ctxErr,         \* ctx.Err() of each call's context
    attempt,        \* loop variable attempt
    err,            \* local variable err
    result,         \* the value Do returned, meaningful when pc = "done"
    calls,          \* history: invocations of the operation started
    returns,        \* history: invocations of the operation that returned
    waits,          \* history: the attempt indexes passed to backoff.Next
    cancelAt,       \* history: the position at which cancellation arrived
    callsAtCancel,  \* history: calls at the moment cancellation arrived
    retryableOnly,  \* history: every invocation so far failed retryably
    timers,         \* timers started by time.After and not yet fired
    raw,            \* wrapDBError: its argument
    wrapped,        \* wrapDBError: its result
    wrapPc,         \* wrapDBError: position of the call
    timeA,          \* monthsInclusive: argument a, in hours since an epoch
    timeB,          \* monthsInclusive: argument b, in hours since an epoch
    months,         \* monthsInclusive: its result
    monthsPc,       \* monthsInclusive: position of the call
    sumTable,       \* Summary: the rows of table subscriptions
    sumQ,           \* Summary: the request q
    sumStage,       \* Summary: position inside the closure passed to Do
    sumCursor,      \* Summary: the rows the query has still to deliver
    sumTotal,       \* Summary: local variable total
    sumFailures,    \* history: failures the storage reported to Summary
    sumResult,      \* Summary: the pair it returned
    repoDb,         \* repository: the rows of table subscriptions
    repoSeq,        \* repository: the next value of the id sequence
    repoSubs,       \* repository: the caller's *models.Subscription
    repoOp,         \* repository: the method under way
    repoClean,      \* history: the storage has not failed in this method
    repoSub,        \* GetByID: local variable sub
    repoGot,        \* GetByID: the pair it returned
    repoHist,       \* history: the methods that returned, with their errors
    boKind,         \* Backoff: the dynamic type of the receiver
    boCfg,          \* Backoff: the fields of the receiver
    boAttempt,      \* Backoff: argument attempt of Next
    boRand,         \* Backoff: what rand.Float64() returns
    boOut,          \* Backoff: the results of Next(attempt), Next(attempt+1)
    boPc,           \* Backoff: position of the call
    cfgFile,        \* construction: the retry settings that were supplied
    cfgRetry,       \* construction: config.Retry as Load returned it
    newOpts,        \* construction: the options passed to retry.New
    backoff,        \* retrier.backoff
    newPc,          \* construction: position of the call
    listTable,      \* List: the rows of table subscriptions
    listArgs,       \* List: arguments limit and offset
    listStage,      \* List: position inside the closure passed to Do
    listCursor,     \* List: the rows the query has still to deliver
    listSubs,       \* List: local variable subs
    listFailures,   \* history: failures the storage reported to List
    listGot         \* List: the pair it returned

retrierVars == << maxAttempts, isRetryable >>

\* the variables of the Do calls
doVars == << retrierVars, pc, ctxErr, attempt, err, result, calls, returns,
             waits, cancelAt, callsAtCancel, retryableOnly, timers >>

\* the variables of the calls of the pure functions
\* the variables of a call of Summary
sumVars == << sumTable, sumQ, sumStage, sumCursor, sumTotal, sumFailures,
              sumResult >>

\* the variables of a sequence of calls of the CRUD methods
repoVars == << repoDb, repoSeq, repoSubs, repoOp, repoClean, repoSub,
               repoGot, repoHist >>

\* the variables of a call of Backoff.Next
boVars == << boKind, boCfg, boAttempt, boRand, boOut, boPc >>

\* the variables of the construction of a retrier
newVars == << cfgFile, cfgRetry, newOpts, backoff, newPc >>

\* the variables of a call of List
listVars == << listTable, listArgs, listStage, listCursor, listSubs,
               listFailures, listGot >>

\* the variables of construction and of List
extVars == << newVars, listVars >>

\* the variables of the other operations of the model
restVars == << sumVars, repoVars, boVars, extVars >>

\* the variables of wrapDBError and monthsInclusive
fnVars == << raw, wrapped, wrapPc, timeA, timeB, months, monthsPc >>

pureVars == << fnVars, restVars >>

vars == << doVars, pureVars >>

\* r.isRetryable(err)
CallPredicate(e) ==
    CASE isRetryable = "default" -> defaultIsRetryableFunc(e)
      [] isRetryable = "app" -> isRetryableFunc(e)
      [] OTHER -> FALSE

\* mutant: the negation of the predicate's answer is lost
ShouldStopInverted(e) == isRetryable # "nil" /\ CallPredicate(e)

\* r.isRetryable != nil && !r.isRetryable(err)
ShouldStop(e) == isRetryable # "nil" /\ ~CallPredicate(e)

\* mutant: the loop admits one attempt too many
LoopCondInclusive(a) == maxAttempts = 0 \/ a <= maxAttempts

\* mutant: the test for the unlimited retrier is written >= instead of ==
LoopCondUnbounded(a) == maxAttempts >= 0 \/ a < maxAttempts

\* mutant: a negative budget is unlimited too
LoopCondNegativeUnlimited(a) == maxAttempts <= 0 \/ a < maxAttempts

\* mutant: the unlimited case is missing from the loop condition
LoopCondNoUnlimited(a) == a < maxAttempts

\* r.maxAttempts == 0 || attempt < r.maxAttempts
LoopCond(a) == maxAttempts = 0 \/ a < maxAttempts

\* ------------------------------------------------------------------- Init
InitCalls(active) ==
    /\ maxAttempts \in (-1)..MaxAttemptsBound
    /\ isRetryable \in Predicates
    /\ pc = [c \in CallIds |-> IF c \in active THEN "idle" ELSE "unused"]
    /\ ctxErr = [c \in CallIds |-> Nil]
    /\ attempt = [c \in CallIds |-> 0]
    /\ err = [c \in CallIds |-> Nil]
    /\ result = [c \in CallIds |-> Nil]
    /\ calls = [c \in CallIds |-> 0]
    /\ returns = [c \in CallIds |-> 0]
    /\ waits = [c \in CallIds |-> <<>>]
    /\ cancelAt = [c \in CallIds |-> "never"]
    /\ callsAtCancel = [c \in CallIds |-> 0]
    /\ retryableOnly = [c \in CallIds |-> TRUE]
    /\ timers = [c \in CallIds |-> {}]

\* no call of Summary is under way
SumIdle ==
    /\ sumTable = {} /\ sumQ = NoQuery /\ sumStage = "unused"
    /\ sumCursor = << >> /\ sumTotal = 0 /\ sumFailures = 0
    /\ sumResult = NoResult

\* no CRUD method is under way
RepoIdle ==
    /\ repoDb = {} /\ repoSeq = 1 /\ repoSubs = NoSub /\ repoOp = "unused"
    /\ repoClean = TRUE /\ repoSub = NoSub /\ repoGot = NoGot
    /\ repoHist = << >>

\* no call of Backoff.Next is under way
BackoffIdle ==
    /\ boKind = "none" /\ boCfg = NoCfg /\ boAttempt = 0 /\ boRand = 0
    /\ boOut = << >> /\ boPc = "unused"

\* no retrier is being constructed: the one of the Do calls has the default
\* backoff
NewIdle ==
    /\ cfgFile = NoFile /\ cfgRetry = NoRetryCfg /\ newOpts = << >>
    /\ backoff = defaultBackoff /\ newPc = "unused"

\* no call of List is under way
ListIdle ==
    /\ listTable = {} /\ listArgs = NoArgs /\ listStage = "unused"
    /\ listCursor = << >> /\ listSubs = << >> /\ listFailures = 0
    /\ listGot = NoList

\* neither a construction nor a call of List is under way
ExtIdle == NewIdle /\ ListIdle

\* none of the other operations is under way
RestIdle == SumIdle /\ RepoIdle /\ BackoffIdle /\ ExtIdle

\* no call of wrapDBError or monthsInclusive is under way
FnIdle ==
    /\ raw = Nil /\ wrapped = Nil /\ wrapPc = "unused"
    /\ timeA = 0 /\ timeB = 0 /\ months = 0 /\ monthsPc = "unused"

\* no call of a pure function is under way
PureIdle == FnIdle /\ RestIdle

Init == InitCalls({1}) /\ PureIdle

\* ---------------------------------------------------------------- actions
\* return from Do with value v
Return(c, v) ==
    /\ pc' = [pc EXCEPT ![c] = "done"]
    /\ result' = [result EXCEPT ![c] = v]

\* the context of call c is cancelled (or its deadline passes) by its owner
Cancel(c) ==
    /\ pc[c] \notin {"unused", "done"}
    /\ ctxErr[c] = Nil
    /\ \E e \in {Canceled, DeadlineExceeded} :
           ctxErr' = [ctxErr EXCEPT ![c] = e]
    /\ cancelAt' = [cancelAt EXCEPT ![c] = pc[c]]
    /\ callsAtCancel' = [callsAtCancel EXCEPT ![c] = calls[c]]
    /\ UNCHANGED << pureVars, retrierVars, pc, attempt, err, result, calls,
                    returns, waits, retryableOnly, timers >>

\* Do is entered: var err error; attempt := 0
DoCall(c) ==
    /\ pc[c] = "idle"
    /\ pc' = [pc EXCEPT ![c] = "loop"]
    /\ attempt' = [attempt EXCEPT ![c] = 0]
    /\ err' = [err EXCEPT ![c] = Nil]
    /\ UNCHANGED << pureVars, retrierVars, ctxErr, result, calls, returns,
                    waits, cancelAt, callsAtCancel, retryableOnly, timers >>

\* the loop condition; when it fails Do returns the exhausted error
LoopTest(c) ==
    /\ pc[c] = "loop"
    /\ IF LoopCond(attempt[c])
       THEN /\ pc' = [pc EXCEPT ![c] = "check"]
            /\ UNCHANGED result
       ELSE Return(c, Errorf(ExhaustedMsg, err[c]))
    /\ UNCHANGED << pureVars, retrierVars, ctxErr, attempt, err, calls,
                    returns, waits, cancelAt, callsAtCancel, retryableOnly,
                    timers >>

\* mutant: the pre-attempt cancellation check is missing
CtxCheckSkipped(c) ==
    /\ pc[c] = "check"
    /\ pc' = [pc EXCEPT ![c] = "invoke"]
    /\ UNCHANGED << pureVars, retrierVars, ctxErr, attempt, err, result,
                    calls, returns, waits, cancelAt, callsAtCancel,
                    retryableOnly, timers >>

\* if ctxErr := ctx.Err(); ctxErr != nil { return ctxErr }
CtxCheck(c) ==
    /\ pc[c] = "check"
    /\ IF ctxErr[c] # Nil
       THEN Return(c, ctxErr[c])
       ELSE /\ pc' = [pc EXCEPT ![c] = "invoke"]
            /\ UNCHANGED result
    /\ UNCHANGED << pureVars, retrierVars, ctxErr, attempt, err, calls,
                    returns, waits, cancelAt, callsAtCancel, retryableOnly,
                    timers >>

\* mutant: f is started in the background and Do goes on without waiting
InvokeStartAsync(c) ==
    /\ pc[c] = "invoke"
    /\ calls[c] < MaxInvocations
    /\ calls' = [calls EXCEPT ![c] = @ + 1]
    /\ UNCHANGED << pureVars, retrierVars, pc, ctxErr, attempt, err, result,
                    returns, waits, cancelAt, callsAtCancel, retryableOnly,
                    timers >>

\* f() is called
InvokeStart(c) ==
    /\ pc[c] = "invoke"
    /\ calls[c] < MaxInvocations
    /\ pc' = [pc EXCEPT ![c] = "running"]
    /\ calls' = [calls EXCEPT ![c] = @ + 1]
    /\ UNCHANGED << pureVars, retrierVars, ctxErr, attempt, err, result,
                    returns, waits, cancelAt, callsAtCancel, retryableOnly,
                    timers >>

\* f() returns: err = f()
InvokeReturn(c) ==
    /\ pc[c] = "running"
    /\ \E e \in OpErrs :
          /\ err' = [err EXCEPT ![c] = e]
          /\ retryableOnly' =
                [retryableOnly EXCEPT ![c] = @ /\ e # Nil /\ ~ShouldStop(e)]
    /\ pc' = [pc EXCEPT ![c] = "returned"]
    /\ returns' = [returns EXCEPT ![c] = @ + 1]
    /\ UNCHANGED << pureVars, retrierVars, ctxErr, attempt, result, calls,
                    waits, cancelAt, callsAtCancel, timers >>

\* the wait is started: time.After(r.backoff.Next(idx)) creates a timer
StartWait(c, idx) ==
    /\ pc' = [pc EXCEPT ![c] = "wait"]
    /\ waits' = [waits EXCEPT ![c] = Append(@, idx)]
    /\ timers' = [timers EXCEPT ![c] = @ \cup {idx}]
    /\ UNCHANGED result

\* mutant: no wait follows the failure of the last permitted attempt
AfterInvokeNoLastWait(c) ==
    /\ pc[c] = "returned"
    /\ IF err[c] = Nil
       THEN Return(c, Nil) /\ UNCHANGED << waits, timers >>
       ELSE IF ShouldStop(err[c])
       THEN /\ Return(c, Errorf(UnretryableMsg, err[c]))
            /\ UNCHANGED << waits, timers >>
       ELSE IF ~LoopCond(attempt[c] + 1)
       THEN /\ Return(c, Errorf(ExhaustedMsg, err[c]))
            /\ UNCHANGED << waits, timers >>
       ELSE StartWait(c, attempt[c])
    /\ UNCHANGED << pureVars, retrierVars, ctxErr, attempt, err, calls,
                    returns, cancelAt, callsAtCancel, retryableOnly >>

\* mutant: the test err == nil is missing, a nil error goes to the predicate
AfterInvokeNoNilTest(c) ==
    /\ pc[c] = "returned"
    /\ IF ShouldStop(err[c])
       THEN /\ Return(c, Errorf(UnretryableMsg, err[c]))
            /\ UNCHANGED << waits, timers >>
       ELSE StartWait(c, attempt[c])
    /\ UNCHANGED << pureVars, retrierVars, ctxErr, attempt, err, calls,
                    returns, cancelAt, callsAtCancel, retryableOnly >>

\* mutant: the backoff is asked for a 1-based attempt number
AfterInvokeOneBased(c) ==
    /\ pc[c] = "returned"
    /\ IF err[c] = Nil
       THEN Return(c, Nil) /\ UNCHANGED << waits, timers >>
       ELSE IF ShouldStop(err[c])
       THEN /\ Return(c, Errorf(UnretryableMsg, err[c]))
            /\ UNCHANGED << waits, timers >>
       ELSE StartWait(c, attempt[c] + 1)
    /\ UNCHANGED << pureVars, retrierVars, ctxErr, attempt, err, calls,
                    returns, cancelAt, callsAtCancel, retryableOnly >>

\* the two tests on err after f() returned; a retryable failure starts the
\* backoff wait with time.After(r.backoff.Next(attempt))
AfterInvoke(c) ==
    /\ pc[c] = "returned"
    /\ IF err[c] = Nil
       THEN Return(c, Nil) /\ UNCHANGED << waits, timers >>
       ELSE IF ShouldStop(err[c])
       THEN /\ Return(c, Errorf(UnretryableMsg, err[c]))
            /\ UNCHANGED << waits, timers >>
       ELSE StartWait(c, attempt[c])
    /\ UNCHANGED << pureVars, retrierVars, ctxErr, attempt, err, calls,
                    returns, cancelAt, callsAtCancel, retryableOnly >>

\* select: case <-ctx.Done(): return ctx.Err().  Do holds no handle on the
\* timer of time.After and does not stop it: the timer stays pending until
\* it fires, unless it had fired already or the runtime drops a timer whose
\* channel nobody waits on (toolchains from Go 1.23 on)
WaitCancelled(c) ==
    /\ pc[c] = "wait"
    /\ ctxErr[c] # Nil
    /\ Return(c, ctxErr[c])
    /\ \/ UNCHANGED timers
       \/ timers' = [timers EXCEPT ![c] = @ \ {attempt[c]}]
    /\ UNCHANGED << pureVars, retrierVars, ctxErr, attempt, err, calls,
                    returns, waits, cancelAt, callsAtCancel, retryableOnly >>

\* mutant: the loop's attempt++ is missing
WaitTimerNoIncrement(c) ==
    /\ pc[c] = "wait"
    /\ pc' = [pc EXCEPT ![c] = "loop"]
    /\ timers' = [timers EXCEPT ![c] = {}]
    /\ UNCHANGED << pureVars, retrierVars, ctxErr, attempt, err, result,
                    calls, returns, waits, cancelAt, callsAtCancel,
                    retryableOnly >>

\* mutant: the attempt counter is a field of the retrier, shared by all calls
WaitTimerSharedAttempt(c) ==
    /\ pc[c] = "wait"
    /\ pc' = [pc EXCEPT ![c] = "loop"]
    /\ attempt' = [d \in CallIds |-> attempt[d] + 1]
    /\ timers' = [timers EXCEPT ![c] = @ \ {attempt[c]}]
    /\ UNCHANGED << pureVars, retrierVars, ctxErr, err, result, calls,
                    returns, waits, cancelAt, callsAtCancel, retryableOnly >>

\* select: case <-time.After(...): the timer fired; attempt++
WaitTimer(c) ==
    /\ pc[c] = "wait"
    /\ pc' = [pc EXCEPT ![c] = "loop"]
    /\ attempt' = [attempt EXCEPT ![c] = @ + 1]
    /\ timers' = [timers EXCEPT ![c] = @ \ {attempt[c]}]
    /\ UNCHANGED << pureVars, retrierVars, ctxErr, err, result, calls,
                    returns, waits, cancelAt, callsAtCancel, retryableOnly >>

\* a timer that Do left behind fires, with nobody receiving from its channel
TimerExpire(c) ==
    /\ pc[c] = "done"
    /\ timers[c] # {}
    /\ \E t \in timers[c] : timers' = [timers EXCEPT ![c] = @ \ {t}]
    /\ UNCHANGED << pureVars, retrierVars, pc, ctxErr, attempt, err, result,
                    calls, returns, waits, cancelAt, callsAtCancel,
                    retryableOnly >>

Next ==
    \E c \in CallIds :
        \/ Cancel(c)
        \/ DoCall(c)
        \/ LoopTest(c)
        \/ CtxCheck(c)
        \/ InvokeStart(c)
        \/ InvokeReturn(c)
        \/ AfterInvoke(c)
        \/ WaitCancelled(c)
        \/ WaitTimer(c)
        \/ TimerExpire(c)

\* a step of Do itself for call c, the return of f and the firing of the
\* backoff timer included
DoStep(c) ==
    \/ DoCall(c)
    \/ LoopTest(c)
    \/ CtxCheck(c)
    \/ InvokeStart(c)
    \/ InvokeReturn(c)
    \/ AfterInvoke(c)
    \/ WaitCancelled(c)
    \/ WaitTimer(c)

\* the goroutine of each call keeps running, every invocation returns and
\* every backoff timer fires
SpecFair == Init /\ [][Next]_vars /\ \A c \in CallIds : WF_vars(DoStep(c))

\* ---- monthsInclusive: instants are counted in hours since an epoch ----

MaxSpanDays == 91

\* the largest time.Duration, 1<<63 - 1 nanoseconds, in whole hours
MaxDurationHours == 2562047

\* 1000-01-01 to 2025-01-01 in hours: the range "01-1000" to "01-2025"
FarSpanHours == 8984976

\* b.Sub(a): the difference, saturated at the largest and smallest Duration
Sub(b, a) ==
    IF b - a > MaxDurationHours THEN MaxDurationHours
    ELSE IF b - a < -MaxDurationHours THEN -MaxDurationHours
    ELSE b - a

\* if b.Before(a) { return 0 }
\* days := int(b.Sub(a).Hours()/24) + 1; months := (days + 29) / 30
monthsInclusive(a, b) ==
    IF b < a THEN 0
    ELSE LET days == Sub(b, a) \div 24 + 1
         IN  (days + 29) \div 30

\* the spans between the two arguments: up to MaxSpanDays days either side of
\* the start with an hour offset, and spans around the largest Duration
Spans ==
    { d * 24 + h : d \in (-2)..MaxSpanDays, h \in {0, 23} }
        \cup { MaxDurationHours - 23, MaxDurationHours,
               MaxDurationHours + 24, FarSpanHours }

\* no Do call is under way
DoIdle == InitCalls({}) /\ maxAttempts = 3 /\ isRetryable = "app"

\* wrapDBError is called with a raw error
InitClassify ==
    /\ DoIdle
    /\ raw \in RawErrs /\ wrapped = Nil /\ wrapPc = "called"
    /\ timeA = 0 /\ timeB = 0 /\ months = 0 /\ monthsPc = "unused"
    /\ RestIdle

\* the call of wrapDBError returns
WrapDBError ==
    /\ wrapPc = "called"
    /\ wrapped' = wrapDBError(raw)
    /\ wrapPc' = "returned"
    /\ UNCHANGED << doVars, raw, timeA, timeB, months, monthsPc, restVars >>

NextClassify == WrapDBError

SpecClassify == InitClassify /\ [][NextClassify]_vars

\* monthsInclusive is called with two instants
InitMonths ==
    /\ DoIdle
    /\ raw = Nil /\ wrapped = Nil /\ wrapPc = "unused"
    /\ timeA \in {0, 7}
    /\ \E s \in Spans : timeB = timeA + s
    /\ months = 0
    /\ monthsPc = "called"
    /\ RestIdle

MonthsInclusive ==
    /\ monthsPc = "called"
    /\ months' = monthsInclusive(timeA, timeB)
    /\ monthsPc' = "returned"
    /\ UNCHANGED << doVars, raw, wrapped, wrapPc, timeA, timeB, restVars >>

NextMonths == MonthsInclusive

SpecMonths == InitMonths /\ [][NextMonths]_vars

\* ---- Summary: instants are counted in hours since 2025-01-01 ----

MaxRows == 2

\* the Do call that runs the closure of Summary
SumCall == 1

\* midnight of the n-th day after 2025-01-01
Day(n) == n * 24

\* a row of table subscriptions; end_date is NULL when hasEnd is false
Row(i, svc, p, u, s, he, e) ==
    [id |-> i, service |-> svc, price |-> p, user |-> u, start |-> s,
     hasEnd |-> he, end |-> e]

\* the subscriptions of TestSubscriptionsRepo_Summary and one whose end is
\* before its start
Pool ==
    { Row(1, "Netflix", 20, "user1", Day(0), TRUE, Day(89)),
      Row(2, "Spotify", 10, "user1", Day(45), TRUE, Day(104)),
      Row(3, "Hulu", 15, "user2", Day(31), FALSE, 0),
      Row(4, "Netflix", 5, "user2", Day(89), TRUE, Day(31)) }

Tables == { t \in SUBSET Pool : Cardinality(t) <= MaxRows }

\* the requests: the range of the test, the same range reversed and a wider
\* one, each with the optional filters
Queries ==
    { [from |-> r[1], to |-> r[2], user |-> u, service |-> s] :
        r \in { << Day(31), Day(89) >>, << Day(89), Day(31) >>,
                << Day(0), Day(104) >> },
        u \in {"none", "user1"}, s \in {"none", "Hulu"} }

\* the WHERE clause: start_date <= to AND (end_date >= from OR end_date IS
\* NULL), and the two optional filters
Selected(row, q) ==
    /\ row.start <= q.to
    /\ (row.hasEnd /\ row.end >= q.from) \/ ~row.hasEnd
    /\ q.user # "none" => row.user = q.user
    /\ q.service # "none" => row.service = q.service

Fetched(table, q) == { row \in table : Selected(row, q) }

\* the orders in which the storage may deliver a set of rows
Orders(rows) ==
    { s \in [1..Cardinality(rows) -> rows] :
        \A i, j \in 1..Cardinality(rows) : s[i] = s[j] => i = j }

\* ovStart := startDate; if q.From.Time.After(ovStart) { ovStart = q.From.Time }
ovStart(row, q) == IF q.from > row.start THEN q.from ELSE row.start

\* mutant: the end of the period is not clamped to the range
ovEndNoClamp(row, q) == IF row.hasEnd THEN row.end ELSE q.to

\* ovEnd := q.To.Time; if endDate != nil && endDate.Before(ovEnd) { ... }
ovEnd(row, q) == IF row.hasEnd /\ row.end < q.to THEN row.end ELSE q.to

\* mutant: the skip of an empty overlap is missing and the day count is
\* taken without the guard of monthsInclusive
RowAmountSigned(row, q) ==
    LET days == Sub(ovEnd(row, q), ovStart(row, q)) \div 24 + 1
    IN  row.price * ((days + 29) \div 30)

\* if ovEnd.Before(ovStart) { continue }
\* months := monthsInclusive(ovStart, ovEnd); total += price * months
RowAmount(row, q) ==
    IF ovEnd(row, q) < ovStart(row, q) THEN 0
    ELSE row.price * monthsInclusive(ovStart(row, q), ovEnd(row, q))

\* a failure of the connection, as the driver reports it
StorageFailure == ErrorsNew("connection refused")

\* Summary is called on a table with a request
InitSummary ==
    /\ InitCalls({SumCall})
    /\ maxAttempts = 2 /\ isRetryable = "app"
    /\ FnIdle /\ ExtIdle /\ RepoIdle /\ BackoffIdle
    /\ sumTable \in Tables
    /\ sumQ \in Queries
    /\ sumStage = "idle"
    /\ sumCursor = << >>
    /\ sumTotal = 0
    /\ sumFailures = 0
    /\ sumResult = NoResult

\* the closure passed to Do by call c returns v: err = f()
OpReturn(c, v) ==
    /\ err' = [err EXCEPT ![c] = v]
    /\ retryableOnly' =
          [retryableOnly EXCEPT ![c] = @ /\ v # Nil /\ ~ShouldStop(v)]
    /\ pc' = [pc EXCEPT ![c] = "returned"]
    /\ returns' = [returns EXCEPT ![c] = @ + 1]
    /\ UNCHANGED << retrierVars, ctxErr, attempt, result, calls, waits,
                    cancelAt, callsAtCancel, timers >>

\* the closure of Summary returns v to Do
ClosureReturn(v) ==
    /\ OpReturn(SumCall, v)
    /\ sumStage' = "idle"
    /\ UNCHANGED << fnVars, extVars, repoVars, boVars, sumTable, sumQ,
                    sumResult >>

\* the closure fails with the storage's error: return wrapDBError(err)
ClosureFail ==
    /\ ClosureReturn(wrapDBError(StorageFailure))
    /\ sumFailures' = sumFailures + 1
    /\ UNCHANGED << sumCursor, sumTotal >>

\* rows, err := opt.exec.Query(ctx, sqlStr, args...)
SummaryQuery ==
    /\ pc[SumCall] = "running" /\ sumStage = "idle"
    /\ \/ ClosureFail
       \/ /\ sumCursor' \in Orders(Fetched(sumTable, sumQ))
          /\ sumStage' = "rows"
          /\ UNCHANGED << doVars, fnVars, extVars, repoVars, boVars, sumTable,
                          sumQ, sumTotal, sumFailures, sumResult >>

\* one pass of the loop body: rows.Next() is true, the row is scanned and
\* its amount added to total, or rows.Scan fails
SummaryRow ==
    /\ pc[SumCall] = "running" /\ sumStage = "rows"
    /\ sumCursor # << >>
    /\ \/ ClosureFail
       \/ /\ sumTotal' = sumTotal + RowAmount(Head(sumCursor), sumQ)
          /\ sumCursor' = Tail(sumCursor)
          /\ UNCHANGED << doVars, fnVars, extVars, repoVars, boVars, sumTable,
                          sumQ, sumStage, sumFailures, sumResult >>

\* rows.Next() is false: the rows are exhausted, or the connection failed
\* and rows.Err() reports it
SummaryRowsEnd ==
    /\ pc[SumCall] = "running" /\ sumStage = "rows"
    /\ \/ ClosureFail
       \/ /\ sumCursor = << >>
          /\ ClosureReturn(Nil)
          /\ UNCHANGED << sumCursor, sumTotal, sumFailures >>

\* Do has returned: return 0, err or return total, nil
SummaryReturn ==
    /\ pc[SumCall] = "done" /\ sumStage = "idle"
    /\ sumResult' = IF result[SumCall] # Nil
                    THEN [total |-> 0, err |-> result[SumCall]]
                    ELSE [total |-> sumTotal, err |-> Nil]
    /\ sumStage' = "returned"
    /\ UNCHANGED << doVars, fnVars, extVars, repoVars, boVars, sumTable, sumQ,
                    sumCursor, sumTotal, sumFailures >>

NextSummary ==
    \/ DoCall(SumCall)
    \/ LoopTest(SumCall)
    \/ CtxCheck(SumCall)
    \/ InvokeStart(SumCall)
    \/ AfterInvoke(SumCall)
    \/ WaitTimer(SumCall)
    \/ SummaryQuery
    \/ SummaryRow
    \/ SummaryRowsEnd
    \/ SummaryReturn

SpecSummary == InitSummary /\ [][NextSummary]_vars

\* ---- the CRUD methods, called one after the other on one executor ----

MaxOps == 3

\* the Do call that runs the closure of the method under way
RepoCaller == 1

\* the subscriptions a caller creates: the one of TestSubscriptionsRepo_CRUD,
\* with a start at midnight or within the day, with and without end date
NewSubs ==
    { [id |-> 0, service |-> "Netflix", price |-> 15, user |-> "user1",
       start |-> s, hasEnd |-> he, end |-> IF he THEN Day(89) ELSE 0] :
        s \in {Day(0), Day(1) + 13}, he \in BOOLEAN }

\* the price the caller sets before Update
NewPrice == 20

\* t.Format("2006-01-02"): the day of the instant, as the date column holds it
FormatDate(t) == t \div 24

\* the instant a date column is scanned into: midnight of the day
ScanDate(d) == d * 24

\* the row INSERT writes for subs, under the id the sequence supplies
InsertedRow(i, subs) ==
    [id |-> i, service |-> subs.service, price |-> subs.price,
     user |-> subs.user, start |-> FormatDate(subs.start),
     hasEnd |-> subs.hasEnd,
     end |-> IF subs.hasEnd THEN FormatDate(subs.end) ELSE 0]

\* mutant: UPDATE leaves the price column out
UpdatedRowOldPrice(row, subs) ==
    [InsertedRow(row.id, subs) EXCEPT !.price = row.price]

\* the row UPDATE ... WHERE id = subs.ID leaves: every column but id is set
UpdatedRow(row, subs) == InsertedRow(row.id, subs)

\* the struct GetByID fills from a row
ScannedSub(row) ==
    [id |-> row.id, service |-> row.service, price |-> row.price,
     user |-> row.user, start |-> ScanDate(row.start),
     hasEnd |-> row.hasEnd,
     end |-> IF row.hasEnd THEN ScanDate(row.end) ELSE 0]

\* the rows WHERE id = i selects
RowsById(i) == { row \in repoDb : row.id = i }

\* a caller holds a new subscription; no method has been called yet
InitRepo ==
    /\ InitCalls({})
    /\ maxAttempts \in 1..2 /\ isRetryable \in {"app", "nil"}
    /\ FnIdle /\ ExtIdle /\ SumIdle /\ BackoffIdle
    /\ repoDb = {}
    /\ repoSeq = 1
    /\ repoSubs \in NewSubs
    /\ repoOp = "none"
    /\ repoClean = TRUE
    /\ repoSub = NoSub
    /\ repoGot = NoGot
    /\ repoHist = << >>

\* the caller calls a method, which calls r.retry.Do with its closure; Update
\* is called after the caller has set a new price
RepoCall(op) ==
    /\ repoOp = "none" /\ Len(repoHist) < MaxOps
    /\ pc[RepoCaller] \in {"unused", "done"}
    /\ repoOp' = op
    /\ repoClean' = TRUE
    /\ repoSub' = NoSub
    /\ repoSubs' = IF op = "update"
                   THEN [repoSubs EXCEPT !.price = NewPrice]
                   ELSE repoSubs
    /\ pc' = [pc EXCEPT ![RepoCaller] = "idle"]
    /\ attempt' = [attempt EXCEPT ![RepoCaller] = 0]
    /\ err' = [err EXCEPT ![RepoCaller] = Nil]
    /\ result' = [result EXCEPT ![RepoCaller] = Nil]
    /\ calls' = [calls EXCEPT ![RepoCaller] = 0]
    /\ returns' = [returns EXCEPT ![RepoCaller] = 0]
    /\ waits' = [waits EXCEPT ![RepoCaller] = << >>]
    /\ retryableOnly' = [retryableOnly EXCEPT ![RepoCaller] = TRUE]
    /\ UNCHANGED << retrierVars, ctxErr, cancelAt, callsAtCancel, timers,
                    fnVars, extVars, sumVars, boVars, repoDb, repoSeq, repoGot,
                    repoHist >>

\* the closure of the method under way returns v to Do
RepoClosureReturn(v) ==
    /\ OpReturn(RepoCaller, v)
    /\ UNCHANGED << fnVars, extVars, sumVars, boVars, repoOp, repoGot,
                    repoHist >>

\* the reply of the storage is lost after the statement took effect, or the
\* statement never reached it: the closure returns wrapDBError(err)
RepoLost ==
    /\ RepoClosureReturn(wrapDBError(StorageFailure))
    /\ repoClean' = FALSE

\* the storage fails before the statement of the closure takes effect
RepoFail ==
    /\ pc[RepoCaller] = "running" /\ repoOp # "none"
    /\ RepoLost
    /\ UNCHANGED << repoDb, repoSeq, repoSubs, repoSub >>

\* the closure of CreateSubscription: INSERT ... RETURNING id, scanned into
\* subs.ID
CreateClosure ==
    /\ pc[RepoCaller] = "running" /\ repoOp = "create"
    /\ repoDb' = repoDb \cup { InsertedRow(repoSeq, repoSubs) }
    /\ repoSeq' = repoSeq + 1
    /\ \/ /\ RepoClosureReturn(wrapDBError(Nil))
          /\ repoSubs' = [repoSubs EXCEPT !.id = repoSeq]
          /\ UNCHANGED << repoClean, repoSub >>
       \/ /\ RepoLost
          /\ UNCHANGED << repoSubs, repoSub >>

\* the closure of GetByID: SELECT ... WHERE id = $1, scanned into sub
GetClosure ==
    /\ pc[RepoCaller] = "running" /\ repoOp = "get"
    /\ IF RowsById(repoSubs.id) # {}
       THEN /\ repoSub' = ScannedSub(CHOOSE row \in RowsById(repoSubs.id) : TRUE)
            /\ RepoClosureReturn(Nil)
       ELSE /\ RepoClosureReturn(wrapDBError(pgxErrNoRows))
            /\ UNCHANGED repoSub
    /\ UNCHANGED << repoDb, repoSeq, repoSubs, repoClean >>

\* the closure of Update: UPDATE ... WHERE id = subs.ID; ErrNotFound when no
\* row was affected
UpdateClosure ==
    /\ pc[RepoCaller] = "running" /\ repoOp = "update"
    /\ IF RowsById(repoSubs.id) # {}
       THEN /\ repoDb' = { IF row.id = repoSubs.id
                           THEN UpdatedRow(row, repoSubs) ELSE row :
                           row \in repoDb }
            /\ \/ RepoClosureReturn(Nil) /\ UNCHANGED repoClean
               \/ RepoLost
       ELSE /\ RepoClosureReturn(ErrNotFound)
            /\ UNCHANGED << repoDb, repoClean >>
    /\ UNCHANGED << repoSeq, repoSubs, repoSub >>

\* the closure of Delete: DELETE ... WHERE id = $1; ErrNotFound when no row
\* was affected
DeleteClosure ==
    /\ pc[RepoCaller] = "running" /\ repoOp = "delete"
    /\ IF RowsById(repoSubs.id) # {}
       THEN /\ repoDb' = repoDb \ RowsById(repoSubs.id)
            /\ \/ RepoClosureReturn(Nil) /\ UNCHANGED repoClean
               \/ RepoLost
       ELSE /\ RepoClosureReturn(ErrNotFound)
            /\ UNCHANGED << repoDb, repoClean >>
    /\ UNCHANGED << repoSeq, repoSubs, repoSub >>

\* Do has returned and the method returns its error; GetByID returns
\* nil, err or &sub, nil
RepoReturn ==
    /\ pc[RepoCaller] = "done" /\ repoOp # "none"
    /\ repoHist' = Append(repoHist, [op |-> repoOp,
                                     err |-> result[RepoCaller],
                                     clean |-> repoClean])
    /\ repoGot' = IF repoOp # "get" THEN repoGot
                  ELSE IF result[RepoCaller] # Nil
                  THEN [sub |-> NoSub, err |-> result[RepoCaller]]
                  ELSE [sub |-> repoSub, err |-> Nil]
    /\ repoOp' = "none"
    /\ UNCHANGED << doVars, fnVars, extVars, sumVars, boVars, repoDb, repoSeq,
                    repoSubs, repoClean, repoSub >>

NextRepo ==
    \/ \E op \in {"create", "get", "update", "delete"} : RepoCall(op)
    \/ DoCall(RepoCaller)
    \/ LoopTest(RepoCaller)
    \/ CtxCheck(RepoCaller)
    \/ InvokeStart(RepoCaller)
    \/ AfterInvoke(RepoCaller)
    \/ WaitTimer(RepoCaller)
    \/ RepoFail
    \/ CreateClosure
    \/ GetClosure
    \/ UpdateClosure
    \/ DeleteClosure
    \/ RepoReturn

SpecRepo == InitRepo /\ [][NextRepo]_vars

\* ---- List, on a table that does not change during the call ----

\* the Do call that runs List's closure
ListCall == 1

\* ORDER BY id ASC
RECURSIVE OrderById(_)
OrderById(rows) ==
    IF rows = {} THEN << >>
    ELSE LET first == CHOOSE r \in rows : \A o \in rows : r.id <= o.id
         IN  << first >> \o OrderById(rows \ {first})

\* the first n elements of a sequence
Take(s, n) == SubSeq(s, 1, IF n < Len(s) THEN n ELSE Len(s))

\* the elements of a sequence after the first n
Drop(s, n) == SubSeq(s, (IF n < Len(s) THEN n ELSE Len(s)) + 1, Len(s))

\* the rows the statement selects: all of them in id order and, if limit > 0,
\* LIMIT limit OFFSET offset
Page(table, a) ==
    IF a.limit > 0 THEN Take(Drop(OrderById(table), a.offset), a.limit)
    ELSE OrderById(table)

\* the arguments of List
ListArgs == { [limit |-> l, offset |-> o] : l \in 0..2, o \in 0..1 }

\* List is called on a table
InitList ==
    /\ InitCalls({ListCall})
    /\ maxAttempts = 2 /\ isRetryable = "app"
    /\ FnIdle /\ SumIdle /\ RepoIdle /\ BackoffIdle /\ NewIdle
    /\ listTable \in Tables
    /\ listArgs \in ListArgs
    /\ listStage = "idle"
    /\ listCursor = << >>
    /\ listSubs = << >>
    /\ listFailures = 0
    /\ listGot = NoList

\* the closure of List returns v to Do
ListClosureReturn(v) ==
    /\ OpReturn(ListCall, v)
    /\ listStage' = "idle"
    /\ UNCHANGED << fnVars, sumVars, repoVars, boVars, newVars, listTable,
                    listArgs, listGot >>

\* the closure fails with the storage's error: return wrapDBError(err)
ListClosureFail ==
    /\ ListClosureReturn(wrapDBError(StorageFailure))
    /\ listFailures' = listFailures + 1
    /\ UNCHANGED << listCursor, listSubs >>

\* rows, err := opt.exec.Query(ctx, sqlStr, args...)
ListQuery ==
    /\ pc[ListCall] = "running" /\ listStage = "idle"
    /\ \/ ListClosureFail
       \/ /\ listCursor' = Page(listTable, listArgs)
          /\ listStage' = "rows"
          /\ UNCHANGED << doVars, fnVars, sumVars, repoVars, boVars, newVars,
                          listTable, listArgs, listSubs, listFailures,
                          listGot >>

\* one pass of the loop body: rows.Next() is true, the row is scanned and
\* appended to subs, or rows.Scan fails
ListRow ==
    /\ pc[ListCall] = "running" /\ listStage = "rows"
    /\ listCursor # << >>
    /\ \/ ListClosureFail
       \/ /\ listSubs' = Append(listSubs, Head(listCursor))
          /\ listCursor' = Tail(listCursor)
          /\ UNCHANGED << doVars, fnVars, sumVars, repoVars, boVars, newVars,
                          listTable, listArgs, listStage, listFailures,
                          listGot >>

\* rows.Next() is false: the rows are exhausted, or the connection failed
\* and rows.Err() reports it
ListRowsEnd ==
    /\ pc[ListCall] = "running" /\ listStage = "rows"
    /\ \/ ListClosureFail
       \/ /\ listCursor = << >>
          /\ ListClosureReturn(Nil)
          /\ UNCHANGED << listCursor, listSubs, listFailures >>

\* Do has returned: return nil, err or return subs, nil
ListReturn ==
    /\ pc[ListCall] = "done" /\ listStage = "idle"
    /\ listGot' = IF result[ListCall] # Nil
                  THEN [subs |-> << >>, err |-> result[ListCall]]
                  ELSE [subs |-> listSubs, err |-> Nil]
    /\ listStage' = "returned"
    /\ UNCHANGED << doVars, fnVars, sumVars, repoVars, boVars, newVars,
                    listTable, listArgs, listCursor, listSubs, listFailures >>

NextList ==
    \/ DoCall(ListCall)
    \/ LoopTest(ListCall)
    \/ CtxCheck(ListCall)
    \/ InvokeStart(ListCall)
    \/ AfterInvoke(ListCall)
    \/ WaitTimer(ListCall)
    \/ ListQuery
    \/ ListRow
    \/ ListRowsEnd
    \/ ListReturn

SpecList == InitList /\ [][NextList]_vars

\* ---- the backoffs ----
\* A time.Duration is a whole number.  For FixedBackoff, ExponentialBackoff
\* and addJitter the unit is the nanosecond.  LinearBackoff computes with
\* int64 only, and its durations are counted in units of 2^40 ns (about 18
\* minutes), in which int64 arithmetic wraps modulo 2^24.  A float64 is a
\* fraction: Factor is counted in halves, Jitter in quarters, and
\* rand.Float64() returns boRand / RandSteps.

MaxAttemptIndex == 5
RandSteps == 4

\* 2^64 ns and 2^63 ns in units of 2^40 ns
DurationModulus == 16777216
DurationLimit == 8388608

\* the int64 a sum or product of Durations wraps to
Wrap64(x) == ((x + DurationLimit) % DurationModulus) - DurationLimit

\* the conversion of a float64 n / m to an integer: toward zero
Trunc(n, m) == IF n >= 0 THEN n \div m ELSE -((-n) \div m)

RECURSIVE Pow(_, _)
Pow(b, n) == IF n = 0 THEN 1 ELSE b * Pow(b, n - 1)

\* mutant: the jitter is applied whatever the fraction
addJitterNoGuard(d, jq, r) ==
    Trunc(d * (4 * RandSteps + (2 * r - RandSteps) * jq), 4 * RandSteps)

\* addJitter(d, jitter) with jitter = jq / 4 and rand.Float64() = r / RandSteps:
\* delta := (rand.Float64()*2 - 1) * jitter; Duration(float64(d) * (1 + delta))
addJitter(d, jq, r) ==
    IF jq <= 0 \/ jq >= 4 THEN d
    ELSE Trunc(d * (4 * RandSteps + (2 * r - RandSteps) * jq), 4 * RandSteps)

\* mutant: the interval is multiplied by the number of the attempt
FixedNextScaled(f, a, r) == addJitter(f.interval * (a + 1), f.jitter, r)

\* FixedBackoff.Next
FixedNext(f, a, r) == addJitter(f.interval, f.jitter, r)

\* LinearBackoff.Next: d := l.Base + time.Duration(attempt)*l.Step
LinearNext(l, a, r) ==
    LET d == Wrap64(l.base + Wrap64(a * l.step))
    IN  IF l.max > 0 /\ d > l.max THEN l.max ELSE addJitter(d, l.jitter, r)

\* mutant: the cap is missing
ExponentialNextNoCap(e, a, r) ==
    addJitter(Trunc(e.base * Pow(e.factor, a), Pow(2, a)), e.jitter, r)

\* ExponentialBackoff.Next: d := float64(e.Base) * math.Pow(e.Factor,
\* float64(attempt)), with Factor = e.factor / 2
ExponentialNext(e, a, r) ==
    IF e.max > 0 /\ e.base * Pow(e.factor, a) > e.max * Pow(2, a)
    THEN e.max
    ELSE addJitter(Trunc(e.base * Pow(e.factor, a), Pow(2, a)), e.jitter, r)

\* the receivers and arguments Next and addJitter are called with
Cfg(i, b, s, m, f, j) ==
    [interval |-> i, base |-> b, step |-> s, max |-> m, factor |-> f,
     jitter |-> j]

FixedCfgs == { Cfg(i, 0, 0, 0, 0, j) : i \in {0, 1, 5}, j \in {0, 2} }

\* a step of 2^62 ns among the steps, with and without a maximum; with
\* jitter, durations that are multiples of 16 units, which addJitter scales
\* to whole units
LinearCfgs ==
    { Cfg(0, b, s, m, 0, 0) :
        b \in {0, 1, 3}, s \in {0, 1, 2, DurationLimit \div 2},
        m \in {0, 4, 5} }
        \cup { Cfg(0, 16, 16, m, 0, 2) : m \in {0, 48} }

ExponentialCfgs ==
    { Cfg(0, b, 0, m, f, j) : b \in {1, 2, 3}, m \in {0, 4, 10, 1000},
                              f \in 1..4, j \in {0, 2} }

JitterCfgs == { Cfg(0, d, 0, 0, 0, j) : d \in {0, 1, 3, 10}, j \in (-1)..5 }

\* Next, or addJitter, is called twice: for attempt and for attempt + 1
InitBackoff ==
    /\ DoIdle /\ FnIdle /\ ExtIdle /\ SumIdle /\ RepoIdle
    /\ boKind \in {"fixed", "linear", "exponential", "jitter"}
    /\ boCfg \in CASE boKind = "fixed" -> FixedCfgs
                   [] boKind = "linear" -> LinearCfgs
                   [] boKind = "exponential" -> ExponentialCfgs
                   [] OTHER -> JitterCfgs
    /\ boAttempt \in 0..MaxAttemptIndex
    /\ boRand \in 0..(RandSteps - 1)
    /\ boOut = << >>
    /\ boPc = "called"

BackoffReturn(v, w) ==
    /\ boPc = "called"
    /\ boOut' = << v, w >>
    /\ boPc' = "returned"
    /\ UNCHANGED << doVars, fnVars, extVars, sumVars, repoVars, boKind, boCfg,
                    boAttempt, boRand >>

FixedBackoffNext ==
    /\ boKind = "fixed"
    /\ BackoffReturn(FixedNext(boCfg, boAttempt, boRand),
                     FixedNext(boCfg, boAttempt + 1, boRand))

LinearBackoffNext ==
    /\ boKind = "linear"
    /\ BackoffReturn(LinearNext(boCfg, boAttempt, boRand),
                     LinearNext(boCfg, boAttempt + 1, boRand))

ExponentialBackoffNext ==
    /\ boKind = "exponential"
    /\ BackoffReturn(ExponentialNext(boCfg, boAttempt, boRand),
                     ExponentialNext(boCfg, boAttempt + 1, boRand))

AddJitter ==
    /\ boKind = "jitter"
    /\ BackoffReturn(addJitter(boCfg.base, boCfg.jitter, boRand),
                     addJitter(boCfg.base, boCfg.jitter, boRand))

NextBackoff ==
    \/ FixedBackoffNext
    \/ LinearBackoffNext
    \/ ExponentialBackoffNext
    \/ AddJitter

SpecBackoff == InitBackoff /\ [][NextBackoff]_vars

\* ---- the construction of a retrier ----

MaxOpts == 2

\* a RetryOption: its constructor and the argument it was made with
Opt(nm, n, b, p) == [name |-> nm, n |-> n, b |-> b, p |-> p]
WithMaxAttempts(n) == Opt("WithMaxAttempts", n, defaultBackoff, "nil")
WithBackoff(b) == Opt("WithBackoff", 0, b, "nil")
WithIsRetryableFunc(p) == Opt("WithIsRetryableFunc", 0, defaultBackoff, p)

\* mutant: an option starts from an empty retrier
ApplyOptionFresh(r, o) ==
    LET z == [backoff |-> BackoffValue("none", 0, 0, 0, 0, 0, 0),
              maxAttempts |-> 0, isRetryable |-> "nil"]
    IN  CASE o.name = "WithMaxAttempts" -> [z EXCEPT !.maxAttempts = o.n]
          [] o.name = "WithBackoff" -> [z EXCEPT !.backoff = o.b]
          [] OTHER -> [z EXCEPT !.isRetryable = o.p]

\* opt(r): the option sets the one field it was made for
ApplyOption(r, o) ==
    CASE o.name = "WithMaxAttempts" -> [r EXCEPT !.maxAttempts = o.n]
      [] o.name = "WithBackoff" -> [r EXCEPT !.backoff = o.b]
      [] OTHER -> [r EXCEPT !.isRetryable = o.p]

\* for _, opt := range opts { opt(r) }
RECURSIVE ApplyAll(_, _)
ApplyAll(r, opts) ==
    IF opts = << >> THEN r
    ELSE ApplyAll(ApplyOption(r, Head(opts)), Tail(opts))

\* retry.New
New(opts) ==
    ApplyAll([backoff |-> defaultBackoff, maxAttempts |-> defaultAttempts,
              isRetryable |-> "default"], opts)

\* config.Load: the defaults for retry.max_attempts, retry.backoff and
\* retry.jitter stand in for the settings that were not supplied; a numeric
\* field without default is zero
Load(file) ==
    [backoff |-> IF file.backoff = "unset" THEN "fixed" ELSE file.backoff,
     base |-> file.base, factor |-> file.factor, max |-> file.max,
     maxAttempts |-> IF file.attemptsSet THEN file.attempts ELSE 3,
     jitter |-> IF file.jitterSet THEN file.jitter ELSE 0]

\* the options application.newRepoRetrier passes to retry.New
RepoRetrierOpts(cfg, p) ==
    << WithMaxAttempts(cfg.maxAttempts) >>
        \o (IF p # "nil" THEN << WithIsRetryableFunc(p) >> ELSE << >>)
        \o (IF cfg.backoff = "exponential"
            THEN << WithBackoff(BackoffValue("ExponentialBackoff", 0,
                                 cfg.base, 0, cfg.max, cfg.factor,
                                 cfg.jitter)) >>
            ELSE << >>)

\* application.newRepoRetrier
newRepoRetrier(cfg, p) == New(RepoRetrierOpts(cfg, p))

\* the retry settings a deployment supplies
Files ==
    { [backoff |-> k, attemptsSet |-> a[1], attempts |-> a[2], base |-> b,
       factor |-> f, max |-> m, jitterSet |-> j[1], jitter |-> j[2]] :
        k \in {"unset", "fixed", "linear", "exponential"},
        a \in { << FALSE, 0 >>, << TRUE, 0 >>, << TRUE, 5 >> },
        b \in {0, 2}, f \in {0, 4}, m \in {0, 30},
        j \in { << FALSE, 0 >>, << TRUE, 2 >> } }

\* the options a caller of retry.New passes
Options ==
    { WithMaxAttempts(0), WithMaxAttempts(5),
      WithBackoff(BackoffValue("FixedBackoff", 2, 0, 0, 0, 0, 0)),
      WithIsRetryableFunc("app"), WithIsRetryableFunc("nil") }

OptLists == UNION { [1..n -> Options] : n \in 0..MaxOpts }

\* the application is about to load its settings, or a caller is about to
\* call retry.New; no retrier exists yet
InitNew ==
    /\ InitCalls({})
    /\ maxAttempts = 0 /\ isRetryable = "nil"
    /\ FnIdle /\ SumIdle /\ RepoIdle /\ BackoffIdle /\ ListIdle
    /\ backoff = BackoffValue("none", 0, 0, 0, 0, 0, 0)
    /\ cfgRetry = NoRetryCfg
    /\ \/ newPc = "load" /\ cfgFile \in Files /\ newOpts = << >>
       \/ newPc = "new" /\ cfgFile = NoFile /\ newOpts \in OptLists

\* the retrier r is stored
Built(r) ==
    /\ maxAttempts' = r.maxAttempts
    /\ isRetryable' = r.isRetryable
    /\ backoff' = r.backoff
    /\ newPc' = "built"
    /\ UNCHANGED << pc, ctxErr, attempt, err, result, calls, returns, waits,
                    cancelAt, callsAtCancel, retryableOnly, timers, fnVars,
                    sumVars, repoVars, boVars, listVars, cfgFile >>

\* cfg, err := config.Load(path)
LoadConfig ==
    /\ newPc = "load"
    /\ cfgRetry' = Load(cfgFile)
    /\ newPc' = "loaded"
    /\ UNCHANGED << doVars, fnVars, sumVars, repoVars, boVars, listVars,
                    cfgFile, newOpts, backoff >>

\* newRepoRetrier(cfg.Retry, isRetryableFunc)
NewRepoRetrier ==
    /\ newPc = "loaded"
    /\ newOpts' = RepoRetrierOpts(cfgRetry, "app")
    /\ Built(newRepoRetrier(cfgRetry, "app"))
    /\ UNCHANGED cfgRetry

\* retry.New(opts...)
NewCall ==
    /\ newPc = "new"
    /\ Built(New(newOpts))
    /\ UNCHANGED << cfgRetry, newOpts >>

NextNew == LoadConfig \/ NewRepoRetrier \/ NewCall

SpecNew == InitNew /\ [][NextNew]_vars

\* two goroutines call Do on one retrier, each with its own context
InitConc ==
    /\ InitCalls(CallIds)
    /\ maxAttempts \in 1..2
    /\ isRetryable \in {"app", "nil"}
    /\ PureIdle

SpecConc == InitConc /\ [][Next]_vars

Spec == Init /\ [][Next]_vars

TypeOK ==
    /\ maxAttempts \in (-1)..MaxAttemptsBound
    /\ isRetryable \in Predicates
    /\ \A c \in CallIds :
          /\ pc[c] \in {"unused", "idle", "loop", "check", "invoke",
                        "running", "returned", "wait", "done"}
          /\ ctxErr[c] \in {Nil, Canceled, DeadlineExceeded}
          /\ err[c] \in OpErrs
          /\ calls[c] \in 0..MaxInvocations
          /\ returns[c] \in 0..calls[c]

\* ------------------------------------------------------------------ claims
\* the outermost node of a wrapper built by fmt.Errorf around a cause
IsWrapper(r, msg, cause) ==
    /\ cause # Nil
    /\ r = <<Node("wrapError", msg)>> \o cause
    /\ Unwrap(r) = cause
    /\ Is(r, cause)

\* C1: if the context is already cancelled when Do is called, Do returns the
\* context's cancellation error and the operation is invoked zero times, for
\* every maxAttempts value and every predicate.
C1_AlreadyCancelled ==
    \A c \in CallIds :
        (pc[c] = "done" /\ cancelAt[c] = "idle")
            => (result[c] = ctxErr[c] /\ calls[c] = 0)

\* C2: with maxAttempts = N > 0, no cancellation and an operation that fails
\* retryably on every call, Do invokes the operation exactly N times and then
\* returns the exhausted wrapper around the error of the N-th invocation.
C2_ExhaustedAfterN ==
    \A c \in CallIds :
        (pc[c] = "done" /\ maxAttempts > 0 /\ ctxErr[c] = Nil
                        /\ retryableOnly[c])
            => /\ calls[c] = maxAttempts
               /\ returns[c] = maxAttempts
               /\ IsWrapper(result[c], ExhaustedMsg, err[c])

C2_Witness ==
    \E c \in CallIds :
        /\ pc[c] = "done" /\ maxAttempts = 3 /\ ctxErr[c] = Nil
        /\ retryableOnly[c] /\ calls[c] = 3
        /\ result[c] = Errorf(ExhaustedMsg, RawUnknown)

\* C3: when an invocation returns an error the predicate rejects, Do returns
\* at once the non-retryable wrapper around that error: no backoff wait and no
\* further invocation follow it (one invocation when it is the first).
C3_UnretryableReturnsAtOnce ==
    \A c \in CallIds :
        (/\ returns[c] > 0 /\ err[c] # Nil
         /\ isRetryable # "nil" /\ ~CallPredicate(err[c])
         /\ pc[c] # "returned")
            => /\ pc[c] = "done"
               /\ IsWrapper(result[c], UnretryableMsg, err[c])
               /\ calls[c] = returns[c]
               /\ Len(waits[c]) = returns[c] - 1
               /\ (waits[c] = <<>> => calls[c] = 1)

C3_Witness ==
    \E c \in CallIds :
        /\ pc[c] = "done" /\ isRetryable = "app" /\ err[c] = ErrNotFound
        /\ calls[c] = 1 /\ waits[c] = <<>>
        /\ result[c] = Errorf(UnretryableMsg, ErrNotFound)

\* C4: with maxAttempts = N > 0 the number of invocations of one Do call
\* never exceeds N, whatever the invocations return and whenever the context
\* is cancelled.
C4_AtMostN ==
    \A c \in CallIds : maxAttempts > 0 => calls[c] <= maxAttempts

C4_Witness ==
    \E c \in CallIds :
        /\ maxAttempts = 2 /\ calls[c] = 2 /\ cancelAt[c] = "running"
        /\ pc[c] = "done"

\* C5: if cancellation is signalled while Do is in a backoff wait
\* (maxAttempts > 0), Do returns the cancellation error and the operation has
\* been invoked strictly fewer times than maxAttempts.
C5_CancelInWait ==
    \A c \in CallIds :
        (maxAttempts > 0 /\ pc[c] = "done" /\ cancelAt[c] = "wait")
            => (result[c] = ctxErr[c] /\ calls[c] < maxAttempts)

\* C6 as stated: once the context is cancelled Do never starts another
\* invocation of the operation.
C6_NoInvocationAfterCancel ==
    \A c \in CallIds : ctxErr[c] # Nil => calls[c] = callsAtCancel[c]

\* C6 as amended: once the context is cancelled Do starts no invocation
\* except the one whose pre-attempt check had already passed when cancellation
\* was signalled; cancellation signalled during an invocation, during a
\* backoff wait or together with the timer is followed by no invocation.
C6_NoInvocationAfterObservedCancel ==
    \A c \in CallIds :
        ctxErr[c] # Nil
            => /\ cancelAt[c] # "invoke" => calls[c] = callsAtCancel[c]
               /\ cancelAt[c] = "invoke" => calls[c] <= callsAtCancel[c] + 1

\* cancellation arrived in a wait that the timer ended: the next pre-attempt
\* check returned the cancellation error
C6_Witness ==
    \E c \in CallIds :
        /\ pc[c] = "done" /\ cancelAt[c] = "wait" /\ maxAttempts = 0
        /\ attempt[c] = Len(waits[c]) /\ calls[c] = 2
        /\ result[c] = ctxErr[c]

\* C7: Do returns nil if and only if the most recent invocation returned no
\* error, and it returns right after that invocation: no further invocation
\* and no backoff wait.
C7_SuccessIffLastInvocationSucceeded ==
    \A c \in CallIds :
        /\ pc[c] = "done"
              => (result[c] = Nil <=> (returns[c] > 0 /\ err[c] = Nil))
        /\ (returns[c] > 0 /\ err[c] = Nil /\ pc[c] # "returned")
              => /\ pc[c] = "done"
                 /\ result[c] = Nil
                 /\ calls[c] = returns[c]
                 /\ Len(waits[c]) = returns[c] - 1

C7_Witness ==
    \E c \in CallIds :
        /\ pc[c] = "done" /\ result[c] = Nil /\ returns[c] = 2
        /\ Len(waits[c]) = 1 /\ ctxErr[c] # Nil

\* C8: every failing return of Do is exactly one of: (a) the context's
\* cancellation error itself, (b) the non-retryable wrapper around the error
\* the predicate rejected, (c) the exhausted wrapper around the last
\* invocation's error when the attempt budget is used up.
C8_ThreeOutcomes ==
    \A c \in CallIds :
        (pc[c] = "done" /\ result[c] # Nil)
            => \/ /\ ctxErr[c] # Nil
                  /\ result[c] = ctxErr[c]
               \/ /\ returns[c] > 0 /\ ShouldStop(err[c])
                  /\ IsWrapper(result[c], UnretryableMsg, err[c])
               \/ /\ returns[c] > 0 /\ ~LoopCond(attempt[c])
                  /\ IsWrapper(result[c], ExhaustedMsg, err[c])

\* what unwrapping, errors.Is, errors.As and the dynamic type show of an
\* error: everything but the message text of the values fmt.Errorf built
Structure(e) ==
    [i \in 1..Len(e) |->
        IF e[i].typ = "wrapError" THEN Node("wrapError", "") ELSE e[i]]

\* C9: for the same underlying cause the non-retryable and the exhausted
\* errors returned by Do differ in a structurally inspectable element.
C9_StructurallyDistinct ==
    \A c \in CallIds :
        (/\ pc[c] = "done" /\ err[c] # Nil
         /\ result[c] \in { Errorf(UnretryableMsg, err[c]),
                            Errorf(ExhaustedMsg, err[c]) })
            => Structure(Errorf(UnretryableMsg, err[c]))
                   # Structure(Errorf(ExhaustedMsg, err[c]))

\* the errors the classifier's policy calls deterministic
DeterministicErrs ==
    { ErrNotFound, ErrDuplicate, ErrForeignKeyViolation, ErrInvalidID,
      ErrNilValue }

\* C10: the repository retrier's predicate is false for NotFound, Duplicate,
\* ForeignKeyViolation and InvalidInput (invalid id and nil value), so an
\* operation failing with one of them is invoked once and never retried.
C10_DeterministicNotRetried ==
    \A c \in CallIds :
        (/\ isRetryable = "app" /\ returns[c] > 0
         /\ \E d \in DeterministicErrs : Is(err[c], d))
            => /\ ~isRetryableFunc(err[c])
               /\ pc[c] \in {"returned", "done"}
               /\ calls[c] = returns[c]
               /\ Len(waits[c]) = returns[c] - 1
               /\ (waits[c] = <<>> => calls[c] = 1)

\* the errors the classifier's policy calls transient: TransactionAborted and
\* the unrecognized ones
TransientErrs == { ErrTxAborted, RawUnknown, PgUnknown }

\* C11: an operation failing with a TransactionAborted or an Unknown error is
\* retried: the application's predicate is true for both, the backoff wait
\* follows, and Do invokes the operation again unless the attempts are used up
\* or the context is cancelled.
C11_TransientRetried ==
    \A c \in CallIds :
        (isRetryable = "app" /\ returns[c] > 0 /\ err[c] \in TransientErrs)
            => /\ isRetryableFunc(err[c])
               /\ pc[c] \in {"invoke", "running"}
                     => /\ Len(waits[c]) = returns[c]
                        /\ attempt[c] = returns[c]
                        /\ ctxErr[c] = Nil \/ cancelAt[c] = pc[c]
                                           \/ cancelAt[c] = "invoke"
               /\ pc[c] = "done"
                     => \/ ctxErr[c] # Nil /\ result[c] = ctxErr[c]
                        \/ /\ ~LoopCond(attempt[c])
                           /\ IsWrapper(result[c], ExhaustedMsg, err[c])

C11_Witness ==
    \E c \in CallIds :
        /\ isRetryable = "app" /\ pc[c] = "running" /\ calls[c] = 3
        /\ err[c] = ErrTxAborted /\ waits[c] = <<0, 1>>

\* the classification rules, in the order of the specification
RuleNoRows(e) == Is(e, pgxErrNoRows)
RuleTxAborted(e) == Is(e, pgxErrTxClosed) \/ MessageAborted(e)
RuleCode(e, code) == AsPgError(e) /\ PgCode(e) = code

\* C12: wrapDBError classifies by the first matching rule in the order
\* no-rows sentinel (ErrNotFound), transaction-closed sentinel or aborted
\* text (ErrTxAborted), code 23505 (ErrDuplicate), code 23503
\* (ErrForeignKeyViolation); an earlier match is never overridden by a later.
C12_FirstMatchingRule ==
    wrapPc = "returned" =>
        /\ RuleNoRows(raw) => wrapped = ErrNotFound
        /\ (~RuleNoRows(raw) /\ RuleTxAborted(raw)) => wrapped = ErrTxAborted
        /\ (~RuleNoRows(raw) /\ ~RuleTxAborted(raw) /\ RuleCode(raw, "23505"))
              => wrapped = ErrDuplicate
        /\ (~RuleNoRows(raw) /\ ~RuleTxAborted(raw) /\ RuleCode(raw, "23503"))
              => wrapped = ErrForeignKeyViolation

\* a unique violation that is reported inside an aborted transaction
C12_Witness ==
    /\ wrapPc = "returned"
    /\ raw = << Node("wrapError", AbortedMsg), PgError("23505") >>
    /\ wrapped = ErrTxAborted

\* no classification rule matches the raw error
NoRule(e) ==
    /\ ~RuleNoRows(e) /\ ~RuleTxAborted(e)
    /\ ~RuleCode(e, "23505") /\ ~RuleCode(e, "23503")

\* the chain of e ends with the chain of cause
ChainContains(e, cause) ==
    /\ Len(e) >= Len(cause)
    /\ SubSeq(e, Len(e) - Len(cause) + 1, Len(e)) = cause

\* C13: for a raw error that matches no rule wrapDBError returns an error
\* whose unwrap chain still contains the original error, and that carries the
\* Postgres code when there is one; it returns nil only for a nil input.
C13_UnknownKeepsCause ==
    wrapPc = "returned" =>
        /\ wrapped = Nil <=> raw = Nil
        /\ (raw # Nil /\ NoRule(raw))
              => /\ ChainContains(wrapped, raw)
                 /\ Is(wrapped, raw)
                 /\ AsPgError(raw)
                       => /\ wrapped[1] = Node("wrapError", PgMsg(PgCode(raw)))
                          /\ Unwrap(wrapped) = raw
                 /\ ~AsPgError(raw) => wrapped = raw

C13_Witness ==
    /\ wrapPc = "returned"
    /\ raw = << Node("wrapError", "query failed"), PgError("40001") >>
    /\ wrapped = Errorf("postgres error [40001]", raw)

\* invocations of call c that have started and not returned
InProgress(c) == calls[c] - returns[c]

\* C14: within one Do call an invocation starts only after the previous one
\* has returned and the backoff wait that followed it has ended; never are two
\* invocations of the same Do call in progress.
C14_Sequential ==
    \A c \in CallIds :
        /\ InProgress(c) \in {0, 1}
        /\ InProgress(c) = 1 <=> pc[c] = "running"
        /\ pc[c] = "running"
              => /\ Len(waits[c]) = returns[c]
                 /\ attempt[c] = Len(waits[c])
                 /\ timers[c] = {}

C14_Witness ==
    \E c \in CallIds :
        /\ pc[c] = "running" /\ calls[c] = 3 /\ returns[c] = 2
        /\ waits[c] = <<0, 1>> /\ isRetryable = "default"

\* everything call c owns: its locals, its context and its history
Local(c) ==
    << pc[c], ctxErr[c], attempt[c], err[c], result[c], calls[c], returns[c],
       waits[c], timers[c], cancelAt[c], callsAtCancel[c], retryableOnly[c] >>

\* the outcome and the counters of call c as its own history fixes them when
\* it runs alone
SoloOutcome(c) ==
    /\ maxAttempts > 0 => calls[c] <= maxAttempts
    /\ attempt[c] <= Len(waits[c])
    /\ Len(waits[c]) <= returns[c]
    /\ \A i \in 1..Len(waits[c]) : waits[c][i] = i - 1
    /\ pc[c] = "done"
          => /\ calls[c] = returns[c]
             /\ \/ result[c] = Nil /\ returns[c] > 0 /\ err[c] = Nil
                \/ /\ returns[c] > 0 /\ ShouldStop(err[c])
                   /\ IsWrapper(result[c], UnretryableMsg, err[c])
                \/ /\ ctxErr[c] # Nil /\ result[c] = ctxErr[c]
                \/ /\ attempt[c] = maxAttempts /\ calls[c] = maxAttempts
                   /\ result[c] = Errorf(ExhaustedMsg, err[c])

\* C15: concurrent Do calls on one retrier do not interfere: a step of one
\* call changes nothing another call owns, no step writes the retrier's
\* fields, and each call's outcome and counters are those of a solo run.
C15_NoInterference ==
    /\ [](\A c \in CallIds : SoloOutcome(c))
    /\ [][/\ maxAttempts' = maxAttempts
          /\ isRetryable' = isRetryable
          /\ \A c, d \in CallIds :
                (c # d /\ Local(c)' # Local(c)) => Local(d)' = Local(d)]_vars

\* the two calls end differently, each by its own history
C15_Witness ==
    /\ maxAttempts = 2
    /\ pc[1] = "done" /\ result[1] = Nil /\ calls[1] = 1
    /\ pc[2] = "done" /\ calls[2] = 2 /\ attempt[2] = 2
    /\ result[2] = Errorf(ExhaustedMsg, ErrTxAborted)

\* C16: when Do returns because cancellation fired during a backoff wait, the
\* timer of that wait has been released: no timer created by Do is pending
\* after Do has returned.
C16_NoPendingTimer ==
    \A c \in CallIds : pc[c] = "done" => timers[c] = {}

\* the terminal states of the retrier's state machine that result r fits
TerminalStates(c) ==
    { s \in {"Succeeded", "FailedTerminal", "FailedExhausted", "Cancelled"} :
        \/ s = "Succeeded" /\ result[c] = Nil
        \/ s = "Cancelled" /\ ctxErr[c] # Nil /\ result[c] = ctxErr[c]
        \/ /\ s = "FailedTerminal" /\ result[c] # Nil
           /\ result[c][1] = Node("wrapError", UnretryableMsg)
        \/ /\ s = "FailedExhausted" /\ result[c] # Nil
           /\ result[c][1] = Node("wrapError", ExhaustedMsg) }

\* C17: with maxAttempts > 0, every invocation returning and every timer
\* firing, each Do call eventually reaches exactly one terminal state
\* (Succeeded, FailedTerminal, FailedExhausted, Cancelled) and takes no step,
\* no invocation and no wait, after reaching it.
C17_Terminates ==
    /\ \A c \in CallIds :
          (pc[c] = "idle" /\ maxAttempts > 0) ~> (pc[c] = "done")
    /\ [](\A c \in CallIds :
            (pc[c] = "done" /\ maxAttempts > 0)
                => Cardinality(TerminalStates(c)) = 1)
    /\ [][\A c \in CallIds :
            pc[c] = "done"
                => /\ pc'[c] = "done" /\ result'[c] = result[c]
                   /\ calls'[c] = calls[c] /\ returns'[c] = returns[c]
                   /\ waits'[c] = waits[c] /\ attempt'[c] = attempt[c]]_vars

C17_Witness ==
    \E c \in CallIds :
        /\ pc[c] = "done" /\ maxAttempts = 3 /\ calls[c] = 3
        /\ TerminalStates(c) = {"FailedExhausted"}

\* C18: with maxAttempts = 0 Do never returns the exhausted error: it ends
\* only by success, an unretryable error or cancellation, and while every
\* invocation fails retryably and the context is live it keeps invoking.
C18_UnlimitedNeverExhausted ==
    \A c \in CallIds :
        maxAttempts = 0 =>
            /\ pc[c] = "done" =>
                  /\ TerminalStates(c) # {}
                  /\ "FailedExhausted" \notin TerminalStates(c)
            /\ (retryableOnly[c] /\ ctxErr[c] = Nil)
                  => pc[c] # "done"

C18_Witness ==
    \E c \in CallIds :
        /\ maxAttempts = 0 /\ pc[c] = "wait" /\ ctxErr[c] = Nil
        /\ calls[c] = MaxInvocations /\ retryableOnly[c]

\* C19: the wait after the k-th invocation (k counted from 0) takes its
\* duration from Backoff.Next(k): one Do call uses the indexes 0, 1, 2, ...
\* in order, each at most once, and the wait index trails the invocations.
C19_BackoffIndexes ==
    \A c \in CallIds :
        /\ \A i \in 1..Len(waits[c]) : waits[c][i] = i - 1
        /\ Len(waits[c]) <= returns[c]
        /\ pc[c] = "wait" => Len(waits[c]) = returns[c]

C19_Witness ==
    \E c \in CallIds : pc[c] = "wait" /\ waits[c] = << 0, 1, 2 >>

\* whole days from a to b, and the quotient rounded up
WholeDays(a, b) == (b - a) \div 24
Ceil(n, d) == (n + d - 1) \div d

\* C20: monthsInclusive(a, b) returns 0 when b is before a, and otherwise
\* ceil((whole days from a to b, plus 1) / 30): 1 for an inclusive span of
\* 1 to 30 days, 2 for 31 to 60 days, 3 for 61 to 90 days.
C20_MonthsInclusive ==
    monthsPc = "returned" =>
        /\ timeB < timeA => months = 0
        /\ timeB >= timeA =>
              /\ months = Ceil(WholeDays(timeA, timeB) + 1, 30)
              /\ \A k \in 1..3 :
                    (WholeDays(timeA, timeB) + 1 \in (30 * k - 29)..(30 * k))
                        => months = k

\* the later and the earlier of two instants
MaxT(a, b) == IF a >= b THEN a ELSE b
MinT(a, b) == IF a <= b THEN a ELSE b

\* the end of a period for a request: its end date, or the range's to
EndOr(row, q) == IF row.hasEnd THEN row.end ELSE q.to

\* price x monthsInclusive(max(period start, from), min(period end, to))
PeriodAmount(row, q) ==
    row.price * monthsInclusive(MaxT(row.start, q.from),
                                MinT(EndOr(row, q), q.to))

\* Summary passes the body of its loop once, for the row at the cursor
RowStep ==
    /\ sumStage = "rows" /\ sumStage' = "rows"
    /\ sumCursor # << >> /\ sumCursor' = Tail(sumCursor)

\* C21: for each fetched period Summary adds price x monthsInclusive(max(
\* period start, range from), min(period end, range to)) to the total, a
\* period without end date taking the range's to as its end; the total
\* changes in no other way.
C21_PeriodAmountAdded ==
    [][/\ RowStep =>
            sumTotal' = sumTotal + PeriodAmount(Head(sumCursor), sumQ)
       /\ sumTotal' # sumTotal => RowStep]_vars

\* price 20, period 2025-01-01..2025-03-31, range 2025-02-01..2025-03-31: 40
C21_Witness ==
    /\ sumStage = "returned" /\ sumFailures = 0
    /\ sumTable = { Row(1, "Netflix", 20, "user1", Day(0), TRUE, Day(89)) }
    /\ sumQ.from = Day(31) /\ sumQ.to = Day(89)
    /\ sumResult = [total |-> 40, err |-> Nil]

\* the period of the row and the range of the request have no instant in
\* common
EmptyIntersection(row, q) ==
    MaxT(row.start, q.from) > MinT(EndOr(row, q), q.to)

\* C22: a period whose intersection with the range is empty (its end before
\* its start, or the range's from after its to, included) adds 0 to the total
\* and makes Summary return no error: without a failure of the storage
\* Summary returns a nil error, and 0 when every fetched period is such.
C22_EmptyIntersectionIsZero ==
    /\ [](sumStage = "returned" /\ sumFailures = 0 =>
            /\ sumResult.err = Nil
            /\ (\A row \in Fetched(sumTable, sumQ) :
                    EmptyIntersection(row, sumQ)) => sumResult.total = 0)
    /\ [][RowStep /\ EmptyIntersection(Head(sumCursor), sumQ)
            => sumTotal' = sumTotal /\ err' = err]_vars

C22_Witness ==
    /\ sumStage = "returned" /\ sumFailures = 0
    /\ Row(4, "Netflix", 5, "user2", Day(89), TRUE, Day(31))
          \in Fetched(sumTable, sumQ)
    /\ sumQ.from < sumQ.to
    /\ sumResult = [total |-> 0, err |-> Nil]

\* the total of a sequence of rows processed in order
RECURSIVE FoldAmounts(_, _)
FoldAmounts(s, q) ==
    IF s = << >> THEN 0
    ELSE RowAmount(Head(s), q) + FoldAmounts(Tail(s), q)

\* C23: for a fixed range the total Summary computes over a set of periods is
\* the same for every order in which the rows are processed.
C23_OrderIndependent ==
    (sumStage = "returned" /\ sumResult.err = Nil) =>
        \A s \in Orders(Fetched(sumTable, sumQ)) :
            sumResult.total = FoldAmounts(s, sumQ)

\* the subscriptions that match the optional filters of a request
Matching(table, q) ==
    { row \in table :
        /\ q.user # "none" => row.user = q.user
        /\ q.service # "none" => row.service = q.service }

\* the sum of the amounts of a set of subscriptions
RECURSIVE SumAmounts(_, _)
SumAmounts(rows, q) ==
    IF rows = {} THEN 0
    ELSE LET row == CHOOSE r \in rows : TRUE
         IN  PeriodAmount(row, q) + SumAmounts(rows \ {row}, q)

\* C26: Summary counts only the periods that match the optional user_id and
\* service_name filters: the total is the sum of the amounts of exactly the
\* matching subscriptions, of all subscriptions when no filter is set.
C26_FiltersSelect ==
    (sumStage = "returned" /\ sumResult.err = Nil) =>
        sumResult.total = SumAmounts(Matching(sumTable, sumQ), sumQ)

\* the method that returned n-th from last, n = 0 for the last one
Past(n) == repoHist[Len(repoHist) - n]

\* the last two methods that returned are first and then GetByID, and first
\* succeeded
GetAfter(first) ==
    /\ repoOp = "none" /\ Len(repoHist) >= 2
    /\ Past(1).op = first /\ Past(1).err = Nil
    /\ Past(0).op = "get"

\* a subscription as the table holds it: the dates at the precision of a day
AsStored(subs) == ScannedSub(InsertedRow(subs.id, subs))

\* C24: after CreateSubscription succeeds the record has a non-zero id and
\* GetByID on that id returns the record (as the table holds it); after a
\* following Update succeeds GetByID returns the updated values, the new
\* price; the calls are made on one executor, and GetByID fails only when
\* the storage fails.
C24_ReadYourWrites ==
    /\ (repoOp = "none" /\ repoHist # << >> /\ Past(0).op = "create"
            /\ Past(0).err = Nil) => repoSubs.id # 0
    /\ \A first \in {"create", "update"} :
          GetAfter(first) =>
              /\ Past(0).clean => Past(0).err = Nil
              /\ ~Is(Past(0).err, ErrNotFound)
              /\ Past(0).err = Nil =>
                    /\ repoGot.err = Nil
                    /\ repoGot.sub = AsStored(repoSubs)
                    /\ repoGot.sub.price = repoSubs.price

C24_Witness ==
    /\ repoOp = "none" /\ Len(repoHist) = 3
    /\ repoHist[1].op = "create" /\ repoHist[1].err = Nil
    /\ repoHist[2].op = "update" /\ repoHist[2].err = Nil
    /\ repoHist[3].op = "get" /\ repoHist[3].err = Nil
    /\ repoGot.sub.id # 0 /\ repoGot.sub.price = NewPrice

\* C25: after Delete of an existing id succeeds, GetByID on that id fails,
\* and with an error for which errors.Is(err, ErrNotFound) holds although it
\* has passed through the retrier's wrapper, whenever the storage answers;
\* ErrNotFound itself unwraps to the storage's no-rows sentinel.
C25_DeletedIsNotFound ==
    /\ Unwrap(ErrNotFound) = pgxErrNoRows
    /\ GetAfter("delete") =>
          /\ Past(0).err # Nil
          /\ repoGot.err = Past(0).err
          /\ Past(0).clean =>
                /\ Is(repoGot.err, ErrNotFound)
                /\ Is(repoGot.err, pgxErrNoRows)
                /\ \/ IsWrapper(repoGot.err, UnretryableMsg, ErrNotFound)
                   \/ IsWrapper(repoGot.err, ExhaustedMsg, ErrNotFound)

C25_Witness ==
    /\ GetAfter("delete") /\ Past(0).clean
    /\ Len(repoHist) = 3 /\ repoHist[1].op = "create"
    /\ IsWrapper(repoGot.err, UnretryableMsg, ErrNotFound)

\* C27: FixedBackoff with Interval = I and jitter 0 returns exactly I from
\* Next(attempt) for every attempt >= 0.
C27_FixedExact ==
    (boPc = "returned" /\ boKind = "fixed" /\ boCfg.jitter = 0) =>
        /\ boOut[1] = boCfg.interval
        /\ boOut[2] = boCfg.interval
        /\ \A a \in 0..MaxAttemptIndex :
              FixedNext(boCfg, a, boRand) = boCfg.interval

C27_Witness ==
    /\ boPc = "returned" /\ boKind = "fixed" /\ boCfg.jitter = 0
    /\ boCfg.interval = 5 /\ boAttempt = 3 /\ boOut = << 5, 5 >>

\* C28: LinearBackoff with base B, step S >= 0, max M > 0 and no jitter:
\* Next(attempt) equals B + S x attempt while that is below M, is
\* non-decreasing in attempt, and equals M for every attempt with
\* B + S x attempt >= M.
C28_LinearCapped ==
    (/\ boPc = "returned" /\ boKind = "linear"
     /\ boCfg.step >= 0 /\ boCfg.max > 0 /\ boCfg.jitter = 0) =>
        LET v == boCfg.base + boCfg.step * boAttempt
        IN  /\ v < boCfg.max => boOut[1] = v
            /\ v >= boCfg.max => boOut[1] = boCfg.max
            /\ boOut[1] <= boOut[2]

\* the value B x F^attempt is a whole number of nanoseconds
Whole(e, a) == (e.base * Pow(e.factor, a)) % Pow(2, a) = 0

\* B x F^attempt exceeds M
Exceeds(e, a) == e.base * Pow(e.factor, a) > e.max * Pow(2, a)

\* C29 as stated: ExponentialBackoff with base B, factor F, max M > 0 and no
\* jitter: Next(attempt + 1) = F x Next(attempt) for every attempt whose next
\* value is still below M, and Next returns M from the first attempt at which
\* B x F^attempt exceeds M onward.
C29_ExponentialExact ==
    (/\ boPc = "returned" /\ boKind = "exponential"
     /\ boCfg.max > 0 /\ boCfg.jitter = 0) =>
        /\ boOut[2] < boCfg.max => 2 * boOut[2] = boCfg.factor * boOut[1]
        /\ Exceeds(boCfg, boAttempt) =>
              \A a \in boAttempt..(MaxAttemptIndex + 1) :
                  ExponentialNext(boCfg, a, boRand) = boCfg.max

\* C29 amended: with B >= 0, F >= 1, M > 0 and no jitter, Next(attempt) is
\* B x F^attempt cut to whole nanoseconds while that does not exceed M, so
\* Next(attempt + 1) lies within F x Next(attempt) - 1 and F x Next(attempt)
\* + F, and equals F x Next(attempt) when both values are whole; Next returns
\* M from the first attempt at which B x F^attempt exceeds M onward.
C29_ExponentialGrowth ==
    (/\ boPc = "returned" /\ boKind = "exponential"
     /\ boCfg.base >= 0 /\ boCfg.factor >= 2
     /\ boCfg.max > 0 /\ boCfg.jitter = 0) =>
        /\ ~Exceeds(boCfg, boAttempt + 1) =>
              /\ 2 * boOut[2] > boCfg.factor * boOut[1] - 2
              /\ 2 * boOut[2] < boCfg.factor * boOut[1] + boCfg.factor
              /\ (Whole(boCfg, boAttempt) /\ Whole(boCfg, boAttempt + 1))
                    => 2 * boOut[2] = boCfg.factor * boOut[1]
        /\ Exceeds(boCfg, boAttempt) =>
              \A a \in boAttempt..(MaxAttemptIndex + 1) :
                  ExponentialNext(boCfg, a, boRand) = boCfg.max

\* base 3 ns, factor 1.5, max 10 ns: Next(1) = 4, Next(2) = 6
C29_Witness ==
    /\ boPc = "returned" /\ boKind = "exponential"
    /\ boCfg.base = 3 /\ boCfg.factor = 3 /\ boCfg.max = 10
    /\ boAttempt = 1 /\ boOut = << 4, 6 >>

\* C30 as stated: addJitter(d, j) returns d unchanged when j <= 0 or j >= 1;
\* for j in (0, 1) it returns d x (1 + u) for some u in [-j, +j], so the
\* result lies between d x (1 - j) and d x (1 + j).
C30_JitterRange ==
    (boPc = "returned" /\ boKind = "jitter") =>
        /\ (boCfg.jitter <= 0 \/ boCfg.jitter >= 4) => boOut[1] = boCfg.base
        /\ (boCfg.jitter > 0 /\ boCfg.jitter < 4) =>
              /\ 4 * boOut[1] >= boCfg.base * (4 - boCfg.jitter)
              /\ 4 * boOut[1] <= boCfg.base * (4 + boCfg.jitter)

\* C30 amended: addJitter(d, j) returns d unchanged when j <= 0 or j >= 1;
\* for j in (0, 1) and d >= 0 it returns d x (1 + u), u in [-j, +j], cut to
\* whole nanoseconds: the result is above d x (1 - j) - 1 and at most
\* d x (1 + j).
C30_JitterWithinOne ==
    (boPc = "returned" /\ boKind = "jitter") =>
        /\ (boCfg.jitter <= 0 \/ boCfg.jitter >= 4) => boOut[1] = boCfg.base
        /\ (boCfg.jitter > 0 /\ boCfg.jitter < 4 /\ boCfg.base >= 0) =>
              /\ 4 * boOut[1] > boCfg.base * (4 - boCfg.jitter) - 4
              /\ 4 * boOut[1] <= boCfg.base * (4 + boCfg.jitter)

\* d = 10 ns, j = 0.5, rand.Float64() = 0: the result is 5 ns
C30_Witness ==
    /\ boPc = "returned" /\ boKind = "jitter"
    /\ boCfg.base = 10 /\ boCfg.jitter = 2 /\ boRand = 0 /\ boOut[1] = 5

\* the retrier was built by the application from its settings
BuiltFromSettings == newPc = "built" /\ cfgRetry # NoRetryCfg

\* C31: the configured backoff kind selects the variant the repository's
\* retrier uses: 'fixed' yields a FixedBackoff, 'linear' a LinearBackoff and
\* 'exponential' an ExponentialBackoff, each built from the configured base,
\* factor, max and jitter values.
C31_KindSelectsVariant ==
    BuiltFromSettings =>
        /\ cfgRetry.backoff = "fixed" =>
              /\ backoff.kind = "FixedBackoff"
              /\ backoff.jitter = cfgRetry.jitter
        /\ cfgRetry.backoff = "linear" =>
              /\ backoff.kind = "LinearBackoff"
              /\ backoff.base = cfgRetry.base
              /\ backoff.max = cfgRetry.max
              /\ backoff.jitter = cfgRetry.jitter
        /\ cfgRetry.backoff = "exponential" =>
              backoff = BackoffValue("ExponentialBackoff", 0, cfgRetry.base,
                                     0, cfgRetry.max, cfgRetry.factor,
                                     cfgRetry.jitter)

\* the options of a list that were made by constructor nm
Named(opts, nm) == { i \in 1..Len(opts) : opts[i].name = nm }

\* the last of them
LastNamed(opts, nm) ==
    opts[CHOOSE i \in Named(opts, nm) : \A j \in Named(opts, nm) : j <= i]

\* C32: when no retry settings are supplied the retrier has maxAttempts = 3
\* and a LinearBackoff with base 1s, step 1s, max 10s and jitter 0.1; an
\* option passed to New replaces only the field it names and leaves the
\* other defaults in place.
C32_DefaultsAndOptions ==
    /\ (BuiltFromSettings /\ cfgFile = NoFile) =>
          /\ maxAttempts = 3
          /\ backoff = BackoffValue("LinearBackoff", 0, 1, 1, 10, 0, 1)
    /\ (newPc = "built" /\ cfgRetry = NoRetryCfg) =>
          /\ maxAttempts =
                IF Named(newOpts, "WithMaxAttempts") = {} THEN 3
                ELSE LastNamed(newOpts, "WithMaxAttempts").n
          /\ backoff =
                IF Named(newOpts, "WithBackoff") = {}
                THEN BackoffValue("LinearBackoff", 0, 1, 1, 10, 0, 1)
                ELSE LastNamed(newOpts, "WithBackoff").b
          /\ isRetryable =
                IF Named(newOpts, "WithIsRetryableFunc") = {} THEN "default"
                ELSE LastNamed(newOpts, "WithIsRetryableFunc").p

C32_Witness ==
    /\ newPc = "built" /\ cfgRetry = NoRetryCfg
    /\ newOpts = << WithMaxAttempts(5) >>
    /\ maxAttempts = 5 /\ backoff = defaultBackoff /\ isRetryable = "default"

\* C33: Summary returns the aggregate of one fetched row set: the rows that
\* attempts which failed had already processed contribute nothing to the
\* returned total.
C33_FailedAttemptsAddNothing ==
    (sumStage = "returned" /\ sumResult.err = Nil /\ sumFailures > 0) =>
        \E s \in Orders(Fetched(sumTable, sumQ)) :
            sumResult.total = FoldAmounts(s, sumQ)

\* C34: List returns each row of the attempt that succeeded exactly once, in
\* id order; no row appears in the returned slice more than once.
C34_EachRowOnce ==
    (listStage = "returned" /\ listGot.err = Nil) =>
        /\ listGot.subs = Page(listTable, listArgs)
        /\ \A i, j \in 1..Len(listGot.subs) :
              listGot.subs[i] = listGot.subs[j] => i = j

\* Update or Delete has come back from Do and the storage answered every
\* statement of the call
ChangeDone ==
    /\ repoOp \in {"update", "delete"} /\ pc[RepoCaller] = "done"
    /\ repoClean

CappedReturned ==
    /\ boPc = "returned" /\ boKind \in {"linear", "exponential"}
    /\ boCfg.max > 0 /\ boCfg.jitter >= 0 /\ boCfg.jitter < 4

\* C36: for LinearBackoff and ExponentialBackoff with Max > 0, Next never
\* returns a duration above Max, for every attempt >= 0 and every jitter
\* draw.
C36_NeverAboveMax ==
    CappedReturned => (boOut[1] <= boCfg.max /\ boOut[2] <= boCfg.max)

\* Next of a backoff with non-negative fields and a factor of at least 1
\* has returned
NonNegativeReturned ==
    /\ boPc = "returned" /\ boKind \in {"fixed", "linear", "exponential"}
    /\ boCfg.interval >= 0 /\ boCfg.base >= 0 /\ boCfg.step >= 0
    /\ boCfg.max >= 0
    /\ boKind = "exponential" => boCfg.factor >= 2

\* C37: with non-negative Interval, Base, Step and Max and Factor >= 1, Next
\* returns a non-negative duration for every attempt, also for the attempts
\* at which the arithmetic overflows (Max = 0, unlimited attempts).
C37_NeverNegative ==
    NonNegativeReturned => (boOut[1] >= 0 /\ boOut[2] >= 0)

\* the attempt numbers 0 .. n - 1 in order
UpTo(n) == [i \in 1..n |-> i - 1]

\* Do of call c returned the exhausted error after n waits, one after each
\* of n invocations
ExhaustedAfterWaits(c, n) ==
    IsWrapper(result[c], ExhaustedMsg, err[c]) =>
        (calls[c] = n /\ returns[c] = n /\ waits[c] = UpTo(n))

\* cancellation was signalled to call c during the wait that followed its
\* n-th invocation
CancelledInWaitAfter(c, n) ==
    cancelAt[c] = "wait" /\ callsAtCancel[c] = n

C39_NegativeBudget ==
    \A c \in CallIds :
        (pc[c] = "done" /\ maxAttempts < 0) =>
            /\ calls[c] = 0 /\ returns[c] = 0 /\ waits[c] = << >>
            /\ result[c] # Nil /\ result[c] # ctxErr[c]
            /\ result[c] = ErrorsNew(ExhaustedMsg)
            /\ Unwrap(result[c]) = Nil

C39_Witness ==
    \E c \in CallIds :
        /\ pc[c] = "done" /\ maxAttempts = -1
        /\ cancelAt[c] = "idle" /\ ctxErr[c] # Nil
        /\ result[c] = ErrorsNew(ExhaustedMsg)
====
